---- MODULE Spec2Model ----
(***************************************************************************)
(* Model of the kqueue backed event queue of mio-st.                       *)
(*                                                                         *)
(* The Selector (src/src/sys/unix/kqueue.rs) is modelled operation by      *)
(* operation together with the part of the kernel it talks to: the table   *)
(* of knotes of one kqueue, keyed by (ident, filter), and the readiness    *)
(* conditions of the registered descriptors.                               *)
(***************************************************************************)
EXTENDS Integers, Sequences, FiniteSets, TLC

\* ------------------------------------------------------------------ bounds

\* Largest number of unread arrivals (connections, data) queued at one fd.
MaxPending == 2
\* Largest capacity of a limited event sink handed to select / poll.
MaxCap == 2
\* Largest number of events ever added to the user space queue.
MaxAdds == 3
\* Largest number of deadlines ever added.
MaxDeadlines == 2
\* The last instant of the clock.
MaxTime == 1
\* wake calls counted between two reports of the awakener
MaxWakes == 2

\* ------------------------------------------------------- program constants

\* crate::sys::EVENTS_CAP, the size of the kevent array of one select call.
EVENTS_CAP == 256
\* errno values the code names.
ENOENT == 2
EINTR == 4
EBADF == 9
EMFILE == 24
ENOMEM == 12
\* libc::NOTE_TRIGGER
NOTE_TRIGGER == 16777216

\* ------------------------------------------------------------- value types

\* The file descriptors the caller registers.
FDs == {3, 4}
\* A descriptor that is not open: closed, or never valid.
BadFd == 5
\* event::Id values the caller uses (ID1 and ID2 of the tests).
Ids == {0, 1}

READABLE == "READABLE"
WRITABLE == "WRITABLE"
ERROR == "ERROR"
HUP == "HUP"
TIMER == "TIMER"

\* Interests: a non-empty subset of {READABLE, WRITABLE}.
InterestsSet == {{READABLE}, {WRITABLE}, {READABLE, WRITABLE}}

EDGE == "EDGE"
LEVEL == "LEVEL"
ONESHOT == "ONESHOT"
RegisterOptions == {EDGE, LEVEL, ONESHOT}

EVFILT_READ == "EVFILT_READ"
EVFILT_WRITE == "EVFILT_WRITE"
EVFILT_USER == "EVFILT_USER"
\* The filters of a descriptor.
Filters == {EVFILT_WRITE, EVFILT_READ}

EV_ADD == "EV_ADD"
EV_DELETE == "EV_DELETE"
EV_RECEIPT == "EV_RECEIPT"
EV_CLEAR == "EV_CLEAR"
EV_ONESHOT == "EV_ONESHOT"
EV_ERROR == "EV_ERROR"
EV_EOF == "EV_EOF"

\* io::Result<()>.
Ok == [ok |-> TRUE, err |-> 0]
Err(e) == [ok |-> FALSE, err |-> e]

\* event::Capacity of a sink.
Limited(n) == [limited |-> TRUE, n |-> n]
Growable == [limited |-> FALSE, n |-> 0]
Capacities == {Limited(n) : n \in 0..MaxCap} \cup {Growable}

\* Capacity::min(self, right: usize).
CapacityMin(cap, right) ==
    IF ~cap.limited THEN right ELSE IF cap.n < right THEN cap.n ELSE right

\* Option<Duration>.
NoTimeout == [some |-> FALSE, d |-> 0]
Some(d) == [some |-> TRUE, d |-> d]

\* A table `f` without the entry of `k`, and with the entry of `k` set to `v`.
Without(f, k) == [x \in DOMAIN f \ {k} |-> f[x]]
With(f, k, v) == [x \in DOMAIN f \cup {k} |-> IF x = k THEN v ELSE f[x]]

\* The knote of the awakener: ident 0, EVFILT_USER.
AwakenerKey == <<0, EVFILT_USER>>
Keys == (FDs \X Filters) \cup {AwakenerKey}

\* The order in which one kevent call reports several knotes.
KeyOrder == <<
    <<3, EVFILT_WRITE>>, <<3, EVFILT_READ>>,
    <<4, EVFILT_WRITE>>, <<4, EVFILT_READ>>, AwakenerKey >>

\* The arguments of register and reregister: every combination.
Args == [id : Ids, interests : InterestsSet, opt : RegisterOptions]
\* The arguments two listeners are registered with, as in the tests: any id,
\* READABLE, EDGE.
ListenerArgs == [id : Ids, interests : {{READABLE}}, opt : {EDGE}]

\* The outcomes of one change-submitting kevent system call.
SysOutcomes == {"ok", "EINTR", "ENOMEM"}

VARIABLES
    queue,      \* user space queue: the events added and not yet delivered
    deadlines,  \* the pending deadlines, earliest first
    now,        \* the clock
    added,      \* number of events ever added to the user space queue
    delivered,  \* number of user space events ever put into a sink
    dAdded,     \* number of deadlines ever added
    dFired,     \* number of TIMER events ever put into a sink
    knotes,     \* kernel: the installed knotes, (ident, filter) -> knote
    pending,    \* kernel: fd -> number of unread arrivals (readable iff > 0)
    writable,   \* kernel: fd -> whether a write would not block
    kevs,       \* the kevents the kernel wrote back to the latest call: the
                \*       receipts of its changes, or the events of a select
    sink,       \* the caller's event sink: [cap, items]
    result,     \* the io::Result of the latest call
    lastCall,   \* the call whose outcome the caller holds: its operation
                \*       ("none" once the caller has handled it), its fd and
                \*       how its change-submitting system call ended
    reg,        \* fd -> its latest successful register, reregister or
                \*       deregister call: [by, id, interests, opt, kq], kq
                \*       being the OsQueue a register or reregister was
                \*       made on
    fired,      \* fd -> while fd is registered ONESHOT with id i, the number
                \*       of selects (at most 2 are counted) that reported fd
                \*       with id i since its latest successful register /
                \*       reregister
    awakener,   \* the awakener as its users see it: [id, wakes, parked,
                \*       reported, setup, wake], the id of the latest
                \*       setup_awakener or wake the kernel applied, the
                \*       number of wakes applied since the latest select that
                \*       reported the awakener, whether the latest of them
                \*       found the caller in select, the number of wakes that
                \*       latest report stood for, the id of the latest
                \*       setup_awakener applied and that of the latest wake
                \*       applied (-1 when there was none)
    life,       \* the lifetimes of the objects: [open, closes, logged, kq,
                \*       live], the kernel's open descriptors of the kqueue,
                \*       the number of close calls made on each descriptor
                \*       number, whether a failed close was logged, the
                \*       descriptor each Selector holds (0 before it exists)
                \*       and the objects that have not been dropped
    osq,        \* the caller's two OsQueues: [current, other]; `knotes` is the
                \*       knote table of the kqueue of the OsQueue the caller
                \*       is working with (1 or 2), `other` that of the other
    notifier,   \* the position of the thread calling notify: "idle";
                \*       "enqueued" once its event is in the user space
                \*       queue and its wake is still to come; or "ignored"
                \*       when the call found the registration destroyed
    edge        \* fd -> while fd is registered EDGE, what happened on its
                \*       read side that no select has reported yet and that
                \*       the caller has not read away: the first of
                \*       "registered" (registered while readable),
                \*       "transition" (became readable) and "arrival" (a
                \*       further arrival while readable); or, when nothing
                \*       is outstanding, "none" or what the select whose
                \*       outcome the caller holds reported ("reported ...")

osVars == <<knotes, pending, writable, reg, fired, edge, awakener>>
userVars == <<queue, deadlines, now, added, delivered, dAdded, dFired,
              life, osq, notifier>>
outVars == <<kevs, sink, result, lastCall>>
vars == <<osVars, userVars, outVars>>

\* The Selectors: the one the queue owns and the duplicate an awakener holds.
Selectors == {"queue", "awakener"}
\* The descriptor numbers the kernel gives to handles of the kqueue.
KqFds == {10, 11}
\* The objects after construction: the queue with its Selector, whose
\* descriptor is open, and a registration with its notifier.
NewLife ==
    [open |-> {10}, closes |-> [fd \in KqFds |-> 0], logged |-> FALSE,
     kq |-> [sel \in Selectors |-> IF sel = "queue" THEN 10 ELSE 0],
     live |-> {"queue", "registration", "notifier"}]

\* The awakener of a new queue: nothing was set up and no wake was made.
NewAwakener ==
    [id |-> 0, wakes |-> 0, parked |-> FALSE, reported |-> 0,
     setup |-> -1, wake |-> -1]

\* ------------------------------------------------------------ pure helpers

\* contains_flag
contains_flag(flags, flag) == flag \in flags

\* opt_to_flags confusing the flag of EDGE with that of ONESHOT.
opt_to_flags_edge_fires_once(opt) ==
    {EV_RECEIPT}
        \cup (IF opt \in {EDGE, ONESHOT} THEN {EV_ONESHOT} ELSE {})

\* opt_to_flags
opt_to_flags(opt) ==
    {EV_RECEIPT}
        \cup (IF opt = EDGE THEN {EV_CLEAR} ELSE {})
        \cup (IF opt = ONESHOT THEN {EV_ONESHOT} ELSE {})

\* new_kevent
new_kevent(ident, filter, flags, id) ==
    [ident |-> ident, filter |-> filter, flags |-> flags,
     fflags |-> 0, data |-> 0, udata |-> id]

\* Event::new
Event(id, readiness) == [id |-> id, readiness |-> readiness]

\* kevent_to_event taking every end of file for an error.
kevent_to_event_eof_is_error(kevent) ==
    Event(kevent.udata,
        (IF contains_flag(kevent.flags, EV_ERROR) THEN {ERROR} ELSE {})
        \cup (IF contains_flag(kevent.flags, EV_EOF) THEN {HUP, ERROR} ELSE {})
        \cup (IF kevent.filter = EVFILT_READ THEN {READABLE} ELSE {})
        \cup (IF kevent.filter = EVFILT_WRITE THEN {WRITABLE} ELSE {})
        \cup (IF kevent.filter = EVFILT_USER THEN {READABLE} ELSE {}))

\* kevent_to_event
kevent_to_event(kevent) ==
    Event(kevent.udata,
        (IF contains_flag(kevent.flags, EV_ERROR) THEN {ERROR} ELSE {})
        \cup (IF contains_flag(kevent.flags, EV_EOF)
              THEN {HUP} \cup (IF kevent.fflags # 0 THEN {ERROR} ELSE {})
              ELSE {})
        \cup (IF kevent.filter = EVFILT_READ THEN {READABLE} ELSE {})
        \cup (IF kevent.filter = EVFILT_WRITE THEN {WRITABLE} ELSE {})
        \cup (IF kevent.filter = EVFILT_USER THEN {READABLE} ELSE {}))

\* check_errors returning the last error found instead of the first.
check_errors_last(events, ignored_errors) ==
    LET failing == {i \in DOMAIN events :
                        /\ contains_flag(events[i].flags, EV_ERROR)
                        /\ events[i].data # 0
                        /\ events[i].data \notin ignored_errors}
    IN  IF failing = {} THEN Ok
        ELSE Err(events[CHOOSE i \in failing : \A j \in failing : j <= i].data)

\* check_errors: the first receipt with EV_ERROR, data # 0 and data not ignored.
RECURSIVE check_errors(_, _)
check_errors(events, ignored_errors) ==
    IF events = <<>> THEN Ok
    ELSE IF /\ contains_flag(Head(events).flags, EV_ERROR)
            /\ Head(events).data # 0
            /\ Head(events).data \notin ignored_errors
         THEN Err(Head(events).data)
         ELSE check_errors(Tail(events), ignored_errors)

\* ------------------------------------------------------------------ kernel

\* Whether the condition a filter watches holds on its descriptor now.
Condition(pend, wr, key) ==
    IF key[2] = EVFILT_READ THEN pend[key[1]] > 0
    ELSE IF key[2] = EVFILT_WRITE THEN wr[key[1]]
    ELSE \* EVFILT_USER watches nothing: it is triggered by NOTE_TRIGGER
         FALSE

\* Whether a knote with these flags is reported per activation (EV_CLEAR,
\* EV_ONESHOT) rather than for as long as its condition holds (neither flag).
Armed(flags) == flags \cap {EV_CLEAR, EV_ONESHOT} # {}

\* The kernel applying one change of a change list: the knote table after it
\* and the receipt written back for it (EV_RECEIPT: EV_ERROR with the errno,
\* 0 on success, in data).
KernelChange(kn, change) ==
    LET key == <<change.ident, change.filter>>
        receipt(e) == [change EXCEPT !.flags = @ \cup {EV_ERROR}, !.data = e]
    IN  IF change.filter \in Filters /\ change.ident \notin FDs
        THEN \* the descriptor is not open
             [kn |-> kn, receipt |-> receipt(EBADF)]
        ELSE IF EV_DELETE \in change.flags
        THEN IF key \notin DOMAIN kn
             THEN [kn |-> kn, receipt |-> receipt(ENOENT)]
             ELSE [kn |-> Without(kn, key), receipt |-> receipt(0)]
        ELSE [kn |-> With(kn, key,
                        [udata |-> change.udata,
                         flags |-> change.flags \cap {EV_CLEAR, EV_ONESHOT},
                         active |->
                            IF key[2] = EVFILT_USER
                            THEN \/ change.fflags = NOTE_TRIGGER
                                 \/ (key \in DOMAIN kn /\ kn[key].active)
                            ELSE Armed(change.flags) /\
                                    \/ Condition(pending, writable, key)
                                    \/ (key \in DOMAIN kn /\ kn[key].active)]),
              receipt |-> receipt(0)]

\* The kernel applying a change list in order.
RECURSIVE KernelChanges(_, _)
KernelChanges(kn, changes) ==
    IF changes = <<>> THEN [kn |-> kn, receipts |-> <<>>]
    ELSE LET one == KernelChange(kn, Head(changes))
             rest == KernelChanges(one.kn, Tail(changes))
         IN  [kn |-> rest.kn, receipts |-> <<one.receipt>> \o rest.receipts]

\* The kernel applying a change list in order when it fails some of the
\* changes for a reason of its own (no memory for the knote, a descriptor
\* closed meanwhile): `faults` gives for each change the errno it fails
\* with, 0 for none. A failed change leaves the knote table alone.
RECURSIVE KernelChangesWith(_, _, _)
KernelChangesWith(kn, changes, faults) ==
    IF changes = <<>> THEN [kn |-> kn, receipts |-> <<>>]
    ELSE LET one == IF Head(faults) # 0
                    THEN [kn |-> kn,
                          receipt |-> [Head(changes) EXCEPT
                                        !.flags = @ \cup {EV_ERROR},
                                        !.data = Head(faults)]]
                    ELSE KernelChange(kn, Head(changes))
             rest == KernelChangesWith(one.kn, Tail(changes), Tail(faults))
         IN  [kn |-> rest.kn, receipts |-> <<one.receipt>> \o rest.receipts]

\* A knote the kernel reports to a waiting kevent call.
Triggered(key) ==
    /\ key \in DOMAIN knotes
    /\ IF key[2] = EVFILT_USER THEN knotes[key].active
       ELSE /\ Condition(pending, writable, key)
            /\ (~Armed(knotes[key].flags) \/ knotes[key].active)

\* The knote table after the kernel reported the knotes in `keys`.
Reported(keys) ==
    [key \in {k \in DOMAIN knotes :
                    k \in keys => EV_ONESHOT \notin knotes[k].flags} |->
        IF key \in keys /\ (key[2] = EVFILT_USER => EV_CLEAR \in knotes[key].flags)
        THEN [knotes[key] EXCEPT !.active = FALSE]
        ELSE knotes[key]]

\* The kevent the kernel writes for a triggered knote.
KernelEvent(key) ==
    [ident |-> key[1], filter |-> key[2], flags |-> knotes[key].flags,
     fflags |-> 0, data |-> 0, udata |-> knotes[key].udata]

\* The members of `keys` in the order of `order`.
RECURSIVE InOrder(_, _)
InOrder(order, keys) ==
    IF order = <<>> THEN <<>>
    ELSE (IF Head(order) \in keys THEN <<Head(order)>> ELSE <<>>)
            \o InOrder(Tail(order), keys)

\* A knote is activated when an event for its filter happens on its fd.
Activate(kn, key) ==
    IF key \in DOMAIN kn /\ Armed(kn[key].flags)
    THEN [kn EXCEPT ![key].active = TRUE] ELSE kn

\* ---------------------------------------------------------------- Selector

\* kevent_register: submit `changes`, every one with a receipt. What it
\* returns and the knote table it leaves.
kevent_register(changes, ignored_errors, sys) ==
    LET applied == KernelChanges(knotes, changes)
    IN  IF sys = "ok"
        THEN [kn |-> applied.kn, receipts |-> applied.receipts,
              result |-> check_errors(applied.receipts, ignored_errors)]
        ELSE IF sys = "EINTR"
        THEN \* -1 with EINTR: all changes have been applied
             [kn |-> applied.kn, receipts |-> <<>>, result |-> Ok]
        ELSE \* -1 with another error
             [kn |-> knotes, receipts |-> <<>>, result |-> Err(ENOMEM)]

\* register_changes naming the knote after the socket instead of the
\* descriptor: every descriptor of the listening socket gives the ident 3.
register_changes_by_socket(fd, id, interests, opt) ==
    LET flags == opt_to_flags(opt) \cup {EV_ADD}
    IN  (IF WRITABLE \in interests
         THEN <<new_kevent(3, EVFILT_WRITE, flags, id)>> ELSE <<>>)
        \o (IF READABLE \in interests
            THEN <<new_kevent(3, EVFILT_READ, flags, id)>> ELSE <<>>)

\* kevent_register returning the error when kevent is interrupted.
kevent_register_eintr_is_error(changes, ignored_errors, sys, faults) ==
    LET applied == KernelChangesWith(knotes, changes, faults)
    IN  IF sys = "ok"
        THEN [kn |-> applied.kn, receipts |-> applied.receipts,
              result |-> check_errors(applied.receipts, ignored_errors)]
        ELSE IF sys = "EINTR"
        THEN [kn |-> applied.kn, receipts |-> <<>>, result |-> Err(EINTR)]
        ELSE [kn |-> knotes, receipts |-> <<>>, result |-> Err(ENOMEM)]

\* kevent_register when the kernel fails the changes named by `faults`.
kevent_register_under(changes, ignored_errors, sys, faults) ==
    LET applied == KernelChangesWith(knotes, changes, faults)
    IN  IF sys = "ok"
        THEN [kn |-> applied.kn, receipts |-> applied.receipts,
              result |-> check_errors(applied.receipts, ignored_errors)]
        ELSE IF sys = "EINTR"
        THEN \* -1 with EINTR: the changes have been applied, the receipts
             \* are not looked at
             [kn |-> applied.kn, receipts |-> <<>>, result |-> Ok]
        ELSE \* -1 with another error
             [kn |-> knotes, receipts |-> <<>>, result |-> Err(ENOMEM)]

\* The change list of Selector::register.
register_changes(fd, id, interests, opt) ==
    LET flags == opt_to_flags(opt) \cup {EV_ADD}
    IN  (IF WRITABLE \in interests
         THEN <<new_kevent(fd, EVFILT_WRITE, flags, id)>> ELSE <<>>)
        \o (IF READABLE \in interests
            THEN <<new_kevent(fd, EVFILT_READ, flags, id)>> ELSE <<>>)

\* reregister_changes taking the flags of each filter from the other interest.
reregister_changes_swapped(fd, id, interests, opt) ==
    LET flags == opt_to_flags(opt)
        write_flags == IF READABLE \in interests
                       THEN flags \cup {EV_ADD} ELSE flags \cup {EV_DELETE}
        read_flags == IF WRITABLE \in interests
                      THEN flags \cup {EV_ADD} ELSE flags \cup {EV_DELETE}
    IN  << new_kevent(fd, EVFILT_WRITE, write_flags, id),
           new_kevent(fd, EVFILT_READ, read_flags, id) >>

\* The change list of Selector::reregister.
reregister_changes(fd, id, interests, opt) ==
    LET flags == opt_to_flags(opt)
        write_flags == IF WRITABLE \in interests
                       THEN flags \cup {EV_ADD} ELSE flags \cup {EV_DELETE}
        read_flags == IF READABLE \in interests
                      THEN flags \cup {EV_ADD} ELSE flags \cup {EV_DELETE}
    IN  << new_kevent(fd, EVFILT_WRITE, write_flags, id),
           new_kevent(fd, EVFILT_READ, read_flags, id) >>

\* deregister_changes forgetting the write filter.
deregister_changes_read_only(fd) ==
    << new_kevent(fd, EVFILT_READ, {EV_DELETE, EV_RECEIPT}, 0) >>

\* The change list of Selector::deregister (the id is not used).
deregister_changes(fd) ==
    LET flags == {EV_DELETE, EV_RECEIPT}
    IN  << new_kevent(fd, EVFILT_WRITE, flags, 0),
           new_kevent(fd, EVFILT_READ, flags, 0) >>

\* The caller's call `op` on `fd`, whose system call ended as `sys`; for a
\* call about no fd, `fd` holds its argument: the id of remove_deadline, the
\* timeout of poll (-1 when absent).
Call(op, fd, sys) == [op |-> op, fd |-> fd, sys |-> sys]
NoCall == Call("none", 0, "ok")

\* What `reg` records of a successful deregister.
Deregistered == [by |-> "deregister", id |-> 0, interests |-> {}, opt |-> LEVEL]

\* Whether the latest successful call on fd was a register or reregister.
Registered(fd) == fd \in DOMAIN reg /\ reg[fd].by # "deregister"

\* Whether something happened on the read side of fd that is still to report.
Outstanding(e) == e \in {"registered", "transition", "arrival"}

\* `edge` after a call on fd returned `r`: a successful register or reregister
\* with EDGE starts with "registered" when fd is readable, any other
\* successful call with nothing.
EdgeAfterCall(fd, r, opt) ==
    IF ~r.ok THEN edge
    ELSE [edge EXCEPT ![fd] = IF opt = EDGE /\ pending[fd] > 0
                                THEN "registered" ELSE "none"]

\* register ignoring an invalid descriptor.
register_ignores_EBADF == {EBADF}

\* The errors Selector::register ignores in its receipts: none.
register_ignored_errors == {}

\* Selector::register
Register(fd, id, interests, opt, sys) ==
    LET r == kevent_register(register_changes(fd, id, interests, opt),
                             register_ignored_errors, sys)
    IN  /\ lastCall = NoCall
        /\ knotes' = r.kn
        /\ kevs' = r.receipts
        /\ result' = r.result
        /\ lastCall' = Call("register", fd, sys)
        /\ reg' = IF r.result.ok
                  THEN With(reg, fd, [by |-> "register", id |-> id,
                                      interests |-> interests, opt |-> opt,
                                      kq |-> osq.current])
                  ELSE reg
        /\ fired' = IF r.result.ok THEN [fired EXCEPT ![fd] = 0] ELSE fired
        /\ edge' = EdgeAfterCall(fd, r.result, opt)
        /\ UNCHANGED <<pending, writable, sink, awakener, userVars>>

\* reregister ignoring no error.
reregister_ignores_nothing == {}

\* The errors Selector::reregister ignores in its receipts.
reregister_ignored_errors == {ENOENT}

\* Selector::reregister
Reregister(fd, id, interests, opt, sys) ==
    LET r == kevent_register(reregister_changes(fd, id, interests, opt),
                             reregister_ignored_errors, sys)
    IN  /\ lastCall = NoCall
        /\ knotes' = r.kn
        /\ kevs' = r.receipts
        /\ result' = r.result
        /\ lastCall' = Call("reregister", fd, sys)
        /\ reg' = IF r.result.ok
                  THEN With(reg, fd, [by |-> "reregister", id |-> id,
                                      interests |-> interests, opt |-> opt,
                                      kq |-> osq.current])
                  ELSE reg
        /\ fired' = IF r.result.ok THEN [fired EXCEPT ![fd] = 0] ELSE fired
        /\ edge' = EdgeAfterCall(fd, r.result, opt)
        /\ UNCHANGED <<pending, writable, sink, awakener, userVars>>

\* deregister ignoring no error.
deregister_ignores_nothing == {}

\* The errors Selector::deregister ignores in its receipts.
deregister_ignored_errors == {ENOENT}

\* Selector::deregister
Deregister(fd, sys) ==
    LET r == kevent_register(deregister_changes(fd),
                             deregister_ignored_errors, sys)
    IN  /\ lastCall = NoCall
        /\ knotes' = r.kn
        /\ kevs' = r.receipts
        /\ result' = r.result
        /\ lastCall' = Call("deregister", fd, sys)
        /\ reg' = IF r.result.ok THEN With(reg, fd, Deregistered) ELSE reg
        /\ fired' = IF r.result.ok THEN [fired EXCEPT ![fd] = 0] ELSE fired
        /\ edge' = EdgeAfterCall(fd, r.result, LEVEL)
        /\ UNCHANGED <<pending, writable, sink, awakener, userVars>>

\* The types that implement Evented by forwarding to the Selector.
Wrappers == {"EventedFd", "EventedIo", "TcpStream", "TcpListener"}

\* AsRawFd::as_raw_fd: the descriptor each wrapper of the model holds.
as_raw_fd(wrapper) ==
    IF wrapper \in {"EventedFd", "TcpListener"} THEN 3 ELSE 4

\* What EventedFd hands to the Selector operation of the same name: its
\* descriptor and the arguments it was given.
EventedFd_forward(fd, id, interests, opt) ==
    [fd |-> fd, id |-> id, interests |-> interests, opt |-> opt]

\* EventedIo: EventedFd(&self.as_raw_fd()) with the same arguments.
EventedIo_forward(fd, id, interests, opt) ==
    EventedFd_forward(fd, id, interests, opt)

\* TcpStream: EventedFd(&self.as_raw_fd()) with the same arguments.
TcpStream_forward(fd, id, interests, opt) ==
    EventedFd_forward(fd, id, interests, opt)

\* TcpListener narrowing the interests it forwards to READABLE.
TcpListener_forward_readable(fd, id, interests, opt) ==
    EventedFd_forward(fd, id, {READABLE}, opt)

\* TcpListener: EventedFd(&self.as_raw_fd()) with the same arguments; the
\* interests are not looked at.
TcpListener_forward(fd, id, interests, opt) ==
    EventedFd_forward(fd, id, interests, opt)

\* The arguments the Selector gets from a call through `wrapper`.
Forward(wrapper, id, interests, opt) ==
    LET fd == as_raw_fd(wrapper)
    IN  IF wrapper = "EventedFd" THEN EventedFd_forward(fd, id, interests, opt)
        ELSE IF wrapper = "EventedIo"
        THEN EventedIo_forward(fd, id, interests, opt)
        ELSE IF wrapper = "TcpStream"
        THEN TcpStream_forward(fd, id, interests, opt)
        ELSE TcpListener_forward(fd, id, interests, opt)

\* Evented::register, reregister or deregister (`op`) called on `wrapper`:
\* the Selector operation of that name runs with the forwarded arguments.
\* The caller's position also records the wrapper and the arguments the
\* caller gave (deregister has none).
Evented(wrapper, op, id, interests, opt, sys) ==
    LET a == Forward(wrapper, id, interests, opt)
        r == IF op = "register"
             THEN kevent_register(
                    register_changes(a.fd, a.id, a.interests, a.opt),
                    register_ignored_errors, sys)
             ELSE IF op = "reregister"
             THEN kevent_register(
                    reregister_changes(a.fd, a.id, a.interests, a.opt),
                    reregister_ignored_errors, sys)
             ELSE kevent_register(deregister_changes(a.fd),
                                  deregister_ignored_errors, sys)
    IN  /\ lastCall = NoCall
        /\ op = "deregister" => (id = 0 /\ interests = {} /\ opt = LEVEL)
        /\ knotes' = r.kn
        /\ kevs' = r.receipts
        /\ result' = r.result
        /\ lastCall' = [op |-> op, fd |-> a.fd, sys |-> sys,
                        via |-> [wrapper |-> wrapper, id |-> id,
                                 interests |-> interests, opt |-> opt]]
        /\ reg' = IF ~r.result.ok THEN reg
                  ELSE IF op = "deregister" THEN With(reg, a.fd, Deregistered)
                  ELSE With(reg, a.fd, [by |-> op, id |-> a.id,
                                        interests |-> a.interests,
                                        opt |-> a.opt, kq |-> osq.current])
        /\ fired' = IF r.result.ok THEN [fired EXCEPT ![a.fd] = 0] ELSE fired
        /\ edge' = EdgeAfterCall(a.fd, r.result,
                                 IF op = "deregister" THEN LEVEL ELSE a.opt)
        /\ UNCHANGED <<pending, writable, sink, awakener, userVars>>

\* events_cap not looking at the capacity the sink has left.
events_cap_whole_array(capacity_left) == EVENTS_CAP

\* The number of kevents one select asks the kernel for.
events_cap(capacity_left) == CapacityMin(capacity_left, EVENTS_CAP)

\* Sink::capacity_left of a sink of fixed capacity.
capacity_left(s) ==
    IF ~s.cap.limited THEN Growable
    ELSE IF Len(s.items) < s.cap.n THEN Limited(s.cap.n - Len(s.items))
    ELSE Limited(0)

\* An event in a sink, with where it came from ("user", "os" or "timer") and,
\* for a user space event, its serial number.
Item(event, src, seq) ==
    [id |-> event.id, readiness |-> event.readiness, src |-> src, seq |-> seq]

\* Extend putting the events in front of those the sink holds.
Extend_in_front(s, ks) ==
    [s EXCEPT !.items = [i \in 1..Len(ks) |->
                            Item(kevent_to_event(ks[i]), "os", 0)] \o @]

\* Sink::extend with the events of the kevents `ks`.
Extend(s, ks) ==
    [s EXCEPT !.items = @ \o [i \in 1..Len(ks) |->
                                Item(kevent_to_event(ks[i]), "os", 0)]]

\* `fired` after a select that reported the knotes in `keys`.
Fired(keys) ==
    [fd \in FDs |->
        IF /\ Registered(fd)
           /\ reg[fd].opt = ONESHOT
           /\ \E key \in keys :
                key[1] = fd /\ knotes[key].udata = reg[fd].id
        THEN (IF fired[fd] < 2 THEN fired[fd] + 1 ELSE 2)
        ELSE fired[fd]]

\* `edge` after a select that reported the knotes in `keys`.
Edge(keys) ==
    [fd \in FDs |->
        IF <<fd, EVFILT_READ>> \notin keys THEN edge[fd]
        ELSE IF Outstanding(edge[fd]) THEN "reported " \o edge[fd]
        ELSE "none"]

\* select asking the kernel for a full array of kevents whatever the sink
\* can take, and putting in the sink the ones that fit.
select_truncating(s, timeout, intr) ==
    LET left == events_cap(capacity_left(s))
        triggered == {key \in Keys : Triggered(key)}
        n == Cardinality(triggered)
        all == [i \in 1..n |-> KernelEvent(InOrder(KeyOrder, triggered)[i])]
    IN  IF n = 0 /\ intr /\ (~timeout.some \/ timeout.d > 0)
        THEN {[result |-> Err(EINTR), kevs |-> <<>>, sink |-> s,
               kn |-> knotes, fired |-> fired, edge |-> edge, took |-> 0]}
        ELSE IF n = 0 /\ ~timeout.some
        THEN {}
        ELSE IF n = 0
        THEN {[result |-> Ok, kevs |-> <<>>, sink |-> s,
               kn |-> knotes, fired |-> fired, edge |-> edge,
               took |-> timeout.d]}
        ELSE {[result |-> Ok, kevs |-> all,
               sink |-> Extend(s, SubSeq(all, 1, IF n < left THEN n ELSE left)),
               kn |-> Reported(triggered), fired |-> Fired(triggered),
               edge |-> Edge(triggered), took |-> 0]}

\* Selector::select with the sink `s`: every way the call can end. `timeout`
\* is absent or a duration; `intr` says whether a signal interrupts the wait.
\* An outcome is the result, the kevents received, the sink, the knote table
\* and the time the call took.
select(s, timeout, intr) ==
    LET cap == events_cap(capacity_left(s))
        triggered == {key \in Keys : Triggered(key)}
        n == IF Cardinality(triggered) < cap THEN Cardinality(triggered) ELSE cap
    IN  IF n = 0 /\ cap > 0 /\ intr /\ (~timeout.some \/ timeout.d > 0)
        THEN \* -1: a signal interrupted the wait
             {[result |-> Err(EINTR), kevs |-> <<>>, sink |-> s,
               kn |-> knotes, fired |-> fired, edge |-> edge, took |-> 0]}
        ELSE IF n = 0 /\ cap > 0 /\ ~timeout.some
        THEN \* the call waits until a knote triggers
             {}
        ELSE IF n = 0
        THEN \* 0: reached the time limit, no events are pulled
             {[result |-> Ok, kevs |-> <<>>, sink |-> s,
               kn |-> knotes, fired |-> fired, edge |-> edge,
               took |-> IF cap > 0 THEN timeout.d ELSE 0]}
        ELSE \* n: the kernel reports n of the triggered knotes
             {[result |-> Ok,
               kevs |-> [i \in 1..n |->
                            KernelEvent(InOrder(KeyOrder, keys)[i])],
               sink |-> Extend(s, [i \in 1..n |->
                            KernelEvent(InOrder(KeyOrder, keys)[i])]),
               kn |-> Reported(keys), fired |-> Fired(keys),
               edge |-> Edge(keys), took |-> 0] :
                keys \in {ks \in SUBSET triggered : Cardinality(ks) = n}}

\* `awakener` after a select that received the kevents `ks`.
Awoken(ks) ==
    IF \E i \in DOMAIN ks : ks[i].filter = EVFILT_USER
    THEN [awakener EXCEPT !.wakes = 0, !.reported = awakener.wakes]
    ELSE awakener

\* An empty sink of capacity `cap`.
NewSink(cap) == [cap |-> cap, items |-> <<>>]

\* Selector::select, called with an empty sink of capacity `cap`.
Select(cap, timeout, intr) ==
    /\ lastCall = NoCall
    /\ \E out \in select(NewSink(cap), timeout, intr) :
        /\ now + out.took <= MaxTime
        /\ now' = now + out.took
        /\ result' = out.result
        /\ kevs' = out.kevs
        /\ sink' = out.sink
        /\ knotes' = out.kn
        /\ fired' = out.fired
        /\ edge' = out.edge
        /\ awakener' = Awoken(out.kevs)
    /\ lastCall' = Call("select", 0, "ok")
    /\ UNCHANGED <<pending, writable, reg>>
    /\ UNCHANGED <<queue, deadlines, added, delivered, dAdded, dFired,
                   life, osq, notifier>>

\* try_clone handing out the descriptor number it was given.
try_clone_kq_copied(kq, open) == kq

\* The descriptor of Selector::try_clone: libc::dup gives the lowest
\* descriptor number that is not open, which refers to the same kqueue.
try_clone_kq(kq, open) ==
    CHOOSE fd \in KqFds \ open : \A other \in KqFds \ open : fd <= other

\* Selector::try_clone, called once, for the awakener.
TryClone(sys) ==
    /\ lastCall = NoCall
    /\ "queue" \in life.live
    /\ life.kq["awakener"] = 0
    /\ lastCall' = Call("try_clone", 0, sys)
    /\ kevs' = <<>>
    /\ IF sys = "ok"
       THEN LET new_kq == try_clone_kq(life.kq["queue"], life.open)
            IN  /\ life' = [life EXCEPT !.open = @ \cup {new_kq},
                                        !.kq["awakener"] = new_kq,
                                        !.live = @ \cup {"awakener"}]
                /\ result' = Ok
       ELSE /\ life' = life
            /\ result' = Err(EMFILE)
    /\ UNCHANGED <<sink, osVars, osq, queue, deadlines, now, added, delivered,
                   dAdded, dFired, notifier>>

\* drop closing again when close was interrupted.
drop_closes_retrying(sys) == IF sys = "EINTR" THEN 2 ELSE 1

\* The number of close calls Drop for Selector makes when its close ends as
\* `sys`: one, an error is logged and nothing more is done.
drop_closes(sys) == 1

\* Drop for Selector: the descriptor is closed; the kernel frees it whether
\* or not close reports an error, and destroys the kqueue with its knotes
\* when no descriptor of it is left. The queue's Selector is dropped by the
\* caller, the awakener's by its thread at any time.
DropSelector(sel, sys) ==
    LET fd == life.kq[sel]
        left == life.open \ {fd}
    IN  /\ sel \in life.live
        /\ sel = "queue" => lastCall = NoCall
        /\ life' = [life EXCEPT !.open = left,
                                !.closes[fd] = @ + drop_closes(sys),
                                !.logged = IF sys = "ok" THEN @ ELSE TRUE,
                                !.live = @ \ {sel}]
        /\ knotes' = IF left = {} THEN <<>> ELSE knotes
        /\ UNCHANGED <<osq, pending, writable, reg, fired, edge, awakener, outVars,
                       queue, deadlines, now, added, delivered, dAdded,
                       dFired, notifier>>

\* The registration or the notifier is dropped (the notifier not in the
\* middle of a notify).
DropObject(obj) ==
    /\ obj \in life.live
    /\ obj = "notifier" => notifier = "idle"
    /\ life' = [life EXCEPT !.live = @ \ {obj}]
    /\ UNCHANGED <<osVars, osq, outVars, queue, deadlines, now, added, delivered,
                   dAdded, dFired, notifier>>

\* The kevents a kevent call can write to select's array: of any filter,
\* with or without EV_ERROR and EV_EOF, with any of a few values in fflags,
\* data and udata.
KernelEvents ==
    [ident : {3}, filter : Filters \cup {EVFILT_USER},
     flags : SUBSET {EV_ERROR, EV_EOF}, fflags : {0, 1},
     data : {0, ENOENT, EBADF}, udata : Ids]

\* Selector::select receiving the one kevent `kevent` from the kernel and
\* putting its event in an empty sink.
Translate(kevent) ==
    /\ lastCall = NoCall
    /\ lastCall' = Call("select", 0, "ok")
    /\ result' = Ok
    /\ kevs' = <<kevent>>
    /\ sink' = Extend(NewSink(Growable), <<kevent>>)
    /\ UNCHANGED <<osVars, userVars>>

\* The caller enters Selector::select with an empty sink of capacity `cap`:
\* the kevent call of select has been made and has not returned yet.
BeginSelect(cap, timeout) ==
    /\ lastCall = NoCall
    /\ lastCall' = Call("selecting", 0, IF timeout.some THEN "timed" ELSE "forever")
    /\ sink' = NewSink(cap)
    /\ UNCHANGED <<kevs, result, osVars, userVars>>

\* The select the caller is in waiting without a limit, whatever its timeout.
TimeoutOf_unlimited(call) == NoTimeout

\* The timeout of the select the caller is in (a timed one has timeout 0).
TimeoutOf(call) == IF call.sys = "timed" THEN Some(0) ELSE NoTimeout

\* The kevent call of the select the caller is in returns.
ReturnSelect(intr) ==
    /\ lastCall.op = "selecting"
    /\ \E out \in select(sink, TimeoutOf(lastCall), intr) :
        /\ result' = out.result
        /\ kevs' = out.kevs
        /\ sink' = out.sink
        /\ knotes' = out.kn
        /\ fired' = out.fired
        /\ edge' = out.edge
        /\ awakener' = Awoken(out.kevs)
    /\ lastCall' = Call("select", 0, lastCall.sys)
    /\ UNCHANGED <<pending, writable, reg, userVars>>

\* The change of Selector::setup_awakener.
setup_awakener_changes(id) ==
    << new_kevent(0, EVFILT_USER, {EV_ADD, EV_CLEAR, EV_RECEIPT}, id) >>

\* Selector::setup_awakener
SetupAwakener(id, sys) ==
    LET r == kevent_register(setup_awakener_changes(id), {}, sys)
    IN  /\ lastCall = NoCall
        /\ knotes' = r.kn
        /\ kevs' = r.receipts
        /\ result' = r.result
        /\ lastCall' = Call("setup_awakener", 0, sys)
        /\ awakener' = IF sys = "ENOMEM" THEN awakener
                       ELSE [awakener EXCEPT !.id = id, !.setup = id]
        /\ UNCHANGED <<pending, writable, reg, fired, edge, sink, userVars>>

\* wake_changes without EV_CLEAR.
wake_changes_no_clear(id) ==
    << [new_kevent(0, EVFILT_USER, {EV_ADD, EV_RECEIPT}, id)
            EXCEPT !.fflags = NOTE_TRIGGER] >>

\* wake_changes forgetting to trigger the event.
wake_changes_no_trigger(id) ==
    << new_kevent(0, EVFILT_USER, {EV_ADD, EV_CLEAR, EV_RECEIPT}, id) >>

\* wake_changes leaving out the id it was given.
wake_changes_without_id(id) ==
    << [new_kevent(0, EVFILT_USER, {EV_ADD, EV_CLEAR, EV_RECEIPT}, 0)
            EXCEPT !.fflags = NOTE_TRIGGER] >>

\* The change of Selector::wake.
wake_changes(id) ==
    << [new_kevent(0, EVFILT_USER, {EV_ADD, EV_CLEAR, EV_RECEIPT}, id)
            EXCEPT !.fflags = NOTE_TRIGGER] >>

\* Selector::wake, called by another thread on its clone of the Selector
\* at any time, also while the caller is in select; its result goes to that
\* thread.
Wake(id, sys) ==
    LET r == kevent_register(wake_changes(id), {}, sys)
    IN  /\ awakener.wakes < MaxWakes
        /\ knotes' = r.kn
        /\ awakener' = IF sys = "ENOMEM" THEN awakener
                       ELSE [awakener EXCEPT !.id = id, !.wakes = @ + 1,
                                !.parked = lastCall.op = "selecting",
                                !.wake = id]
        /\ UNCHANGED <<pending, writable, reg, fired, edge, userVars, outVars>>

\* The change-submitting operations of the Selector.
SubmitOps == {"register", "reregister", "deregister", "setup_awakener", "wake"}

\* The change list of the operation `op`.
ChangesOf(op, fd, id, interests, opt) ==
    IF op = "register" THEN register_changes(fd, id, interests, opt)
    ELSE IF op = "reregister" THEN reregister_changes(fd, id, interests, opt)
    ELSE IF op = "deregister" THEN deregister_changes(fd)
    ELSE IF op = "setup_awakener" THEN setup_awakener_changes(id)
    ELSE wake_changes(id)

\* The errors the operation `op` has kevent_register ignore.
IgnoredBy(op) ==
    IF op = "register" THEN register_ignored_errors
    ELSE IF op = "reregister" THEN reregister_ignored_errors
    ELSE IF op = "deregister" THEN deregister_ignored_errors
    ELSE {}

\* One of the five operations called by the caller, its kevent call ending
\* as `sys` and the kernel failing the changes named by `faults`.
Submit(op, fd, id, interests, opt, sys, faults) ==
    LET changes == ChangesOf(op, fd, id, interests, opt)
        r == kevent_register_under(changes, IgnoredBy(op), sys, faults)
        onFd == op \in {"register", "reregister", "deregister"}
    IN  /\ lastCall = NoCall
        /\ DOMAIN faults = DOMAIN changes
        /\ op = "wake" => awakener.wakes < MaxWakes
        /\ knotes' = r.kn
        /\ kevs' = r.receipts
        /\ result' = r.result
        /\ lastCall' = Call(op, fd, sys)
        /\ reg' = IF ~onFd \/ ~r.result.ok THEN reg
                  ELSE IF op = "deregister" THEN With(reg, fd, Deregistered)
                  ELSE With(reg, fd, [by |-> op, id |-> id,
                                      interests |-> interests, opt |-> opt,
                                      kq |-> osq.current])
        /\ fired' = IF onFd /\ r.result.ok
                    THEN [fired EXCEPT ![fd] = 0] ELSE fired
        /\ edge' = IF onFd
                   THEN EdgeAfterCall(fd, r.result,
                                      IF op = "deregister" THEN LEVEL ELSE opt)
                   ELSE edge
        /\ awakener' =
            IF onFd \/ sys = "ENOMEM" \/ faults[1] # 0 THEN awakener
            ELSE IF op = "setup_awakener"
            THEN [awakener EXCEPT !.id = id, !.setup = id]
            ELSE [awakener EXCEPT !.id = id, !.wakes = @ + 1, !.wake = id]
        /\ UNCHANGED <<pending, writable, sink, userVars>>

\* ------------------------------------------- user space queue and deadlines

\* The events user code adds to the user space queue.
UserEvents == {Event(0, {READABLE})}
\* The id deadlines are added with.
DeadlineIds == {0}
\* The timeouts poll is called with.
Timeouts == {NoTimeout, Some(0), Some(1)}

\* Queue::add, Notifier::notify: append an event to the user space queue.
Add(event) ==
    /\ lastCall = NoCall
    /\ added < MaxAdds
    /\ added' = added + 1
    /\ queue' = Append(queue, Item(event, "user", added + 1))
    /\ UNCHANGED <<deadlines, now, delivered, dAdded, dFired, life, osq, notifier,
                   osVars, outVars>>

\* The deadlines with `d` added: a heap, kept here in firing order.
RECURSIVE Inserted(_, _)
Inserted(ds, d) ==
    IF ds = <<>> THEN <<d>>
    ELSE IF d.at < Head(ds).at THEN <<d>> \o ds
    ELSE <<Head(ds)>> \o Inserted(Tail(ds), d)

\* add_deadline
AddDeadline(id, at) ==
    /\ lastCall = NoCall
    /\ dAdded < MaxDeadlines
    /\ dAdded' = dAdded + 1
    /\ deadlines' = Inserted(deadlines, [at |-> at, id |-> id])
    /\ UNCHANGED <<queue, now, added, delivered, dFired, life, osq, notifier,
                   osVars, outVars>>

\* The sequence `seq` without its i-th element.
RemovedAt(seq, i) == SubSeq(seq, 1, i - 1) \o SubSeq(seq, i + 1, Len(seq))

\* remove_deadline removing the earliest deadline, whatever its id.
remove_deadline_earliest(ds, id) ==
    IF ds = <<>> THEN {ds} ELSE {Tail(ds)}

\* The heaps remove_deadline(id) can leave: one deadline with this id is
\* removed, whichever the scan finds first; none if there is none.
remove_deadline(ds, id) ==
    IF \A i \in DOMAIN ds : ds[i].id # id THEN {ds}
    ELSE {RemovedAt(ds, i) : i \in {j \in DOMAIN ds : ds[j].id = id}}

\* remove_deadline
RemoveDeadline(id) ==
    /\ lastCall = NoCall
    /\ lastCall' = Call("remove_deadline", id, "ok")
    /\ result' = Ok
    /\ deadlines' \in remove_deadline(deadlines, id)
    /\ UNCHANGED <<queue, now, added, delivered, dAdded, dFired, life, osq, notifier,
                   osVars, kevs, sink>>

\* Time passes between two calls (the time a call itself takes is `took`).
Tick ==
    /\ lastCall = NoCall
    /\ now < MaxTime
    /\ now' = now + 1
    /\ UNCHANGED <<queue, deadlines, added, delivered, dAdded, dFired,
                   life, osq, notifier, osVars, outVars>>

\* The first n elements of a sequence, and the rest.
Take_n(seq, n) == SubSeq(seq, 1, n)
Drop_n(seq, n) == SubSeq(seq, n + 1, Len(seq))

\* queue_poll dropping the events that do not fit.
queue_poll_dropping(q, s) ==
    LET n == CapacityMin(capacity_left(s), Len(q))
    IN  [sink |-> [s EXCEPT !.items = @ \o Take_n(q, n)],
         queue |-> <<>>]

\* queue_poll taking the newest events first.
queue_poll_newest_first(q, s) ==
    LET n == CapacityMin(capacity_left(s), Len(q))
    IN  [sink |-> [s EXCEPT !.items = @ \o Drop_n(q, Len(q) - n)],
         queue |-> Take_n(q, Len(q) - n)]

\* The user space queue polled as a source: the events that fit are moved to
\* the sink in queue order, the others stay queued.
queue_poll(q, s) ==
    LET n == CapacityMin(capacity_left(s), Len(q))
    IN  [sink |-> [s EXCEPT !.items = @ \o Take_n(q, n)],
         queue |-> Drop_n(q, n)]

\* The number of deadlines that have expired at `t`.
RECURSIVE Expired(_, _)
Expired(ds, t) ==
    IF ds = <<>> \/ Head(ds).at > t THEN 0 ELSE 1 + Expired(Tail(ds), t)

\* deadlines_poll popping every expired deadline, fit or not.
deadlines_poll_popping_all(ds, t, s) ==
    LET n == CapacityMin(capacity_left(s), Expired(ds, t))
    IN  [sink |-> [s EXCEPT !.items = @ \o [i \in 1..n |->
                        Item(Event(ds[i].id, {TIMER}), "timer", 0)]],
         deadlines |-> Drop_n(ds, Expired(ds, t))]

\* The expired deadlines polled at `t`: those that fit are popped and put in
\* the sink as TIMER events, the others stay in the heap.
deadlines_poll(ds, t, s) ==
    LET n == CapacityMin(capacity_left(s), Expired(ds, t))
    IN  [sink |-> [s EXCEPT !.items = @ \o [i \in 1..n |->
                        Item(Event(ds[i].id, {TIMER}), "timer", 0)]],
         deadlines |-> Drop_n(ds, n)]

\* effective_timeout not looking at the deadlines.
effective_timeout_without_deadlines(timeout, q, ds, t) ==
    IF ~timeout.some \/ q = <<>> THEN timeout ELSE Some(0)

\* The smaller of two optional durations, an absent one being the larger.
MinTimeout(a, b) ==
    IF ~a.some THEN b ELSE IF ~b.some THEN a ELSE IF a.d < b.d THEN a ELSE b

\* effective_timeout not looking at the user space queue.
effective_timeout_without_queue(timeout, q, ds, t) ==
    MinTimeout(timeout,
               IF ds = <<>> THEN NoTimeout
               ELSE IF ds[1].at > t THEN Some(ds[1].at - t) ELSE Some(0))

\* Queue::next_event_available never announcing an event.
next_event_available_never(q) == NoTimeout

\* Queue::next_event_available: no wait when an event is queued, no promise
\* otherwise.
next_event_available(q) == IF q # <<>> THEN Some(0) ELSE NoTimeout

\* The time poll may wait: the caller's timeout, no longer than until the
\* earliest deadline, and not at all once user space events were found.
effective_timeout(timeout, q, ds, t) ==
    MinTimeout(timeout,
        MinTimeout(next_event_available(q),
                   IF ds = <<>> THEN NoTimeout
                   ELSE IF ds[1].at > t THEN Some(ds[1].at - t) ELSE Some(0)))

\* The number of items of sink `s` that came from `src`.
Count(s, src) == Cardinality({i \in DOMAIN s.items : s.items[i].src = src})

\* poll, called with an empty sink of capacity `cap`: the user space queue,
\* then the OS queue, then the expired deadlines.
Poll(cap, timeout, intr) ==
    LET user == queue_poll(queue, NewSink(cap))
        eff == effective_timeout(timeout, queue, deadlines, now)
    IN  /\ lastCall = NoCall
        /\ queue' = user.queue
        /\ \E out \in select(user.sink, eff, intr) :
            LET timers == deadlines_poll(deadlines, now + out.took, out.sink)
            IN  /\ now + out.took <= MaxTime
                /\ lastCall' = Call("poll",
                                    IF timeout.some THEN timeout.d ELSE -1,
                                    IF out.took > 0 THEN "waited" ELSE "ok")
                /\ now' = now + out.took
                /\ result' = out.result
                /\ kevs' = out.kevs
                /\ knotes' = out.kn
                /\ fired' = out.fired
                /\ edge' = out.edge
                /\ awakener' = Awoken(out.kevs)
                /\ sink' = IF out.result.ok THEN timers.sink ELSE out.sink
                /\ deadlines' = IF out.result.ok THEN timers.deadlines
                                ELSE deadlines
        /\ delivered' = delivered + Count(sink', "user")
        /\ dFired' = dFired + Count(sink', "timer")
        /\ UNCHANGED <<pending, writable, reg, added, dAdded, life, osq, notifier>>

\* Whether a consumer may be parked in select: a poll is in progress.
may_be_parked_never(call) == FALSE
may_be_parked(call) == call.op = "polling"

\* notify enqueuing whether or not the registration is still there.
notify_enqueues_always(live) == TRUE

\* Whether notify enqueues its event: only while the registration exists.
notify_enqueues(live) == "registration" \in live

\* notify, first half, on the notifier's thread at any time: the event is
\* appended to the user space queue, unless the registration was destroyed.
NotifyEnqueue(event) ==
    /\ notifier = "idle"
    /\ "notifier" \in life.live
    /\ IF notify_enqueues(life.live)
       THEN /\ added < MaxAdds
            /\ added' = added + 1
            /\ queue' = Append(queue, Item(event, "user", added + 1))
            /\ notifier' = "enqueued"
       ELSE /\ notifier' = "ignored"
            /\ UNCHANGED <<added, queue>>
    /\ UNCHANGED <<deadlines, now, delivered, dAdded, dFired, life, osq, osVars,
                   outVars>>

\* notify, second half: if a consumer may be parked in select, the awakener
\* wakes it; then notify returns.
NotifyWake(sys) ==
    LET r == kevent_register(wake_changes(awakener.id), {}, sys)
    IN  /\ notifier \in {"enqueued", "ignored"}
        /\ notifier' = "idle"
        /\ IF notifier = "enqueued" /\ may_be_parked(lastCall)
           THEN /\ knotes' = r.kn
                /\ awakener' = [awakener EXCEPT !.wakes = @ + 1,
                                                !.parked = TRUE,
                                                !.wake = awakener.id]
           ELSE UNCHANGED <<knotes, awakener>>
        /\ UNCHANGED <<pending, writable, reg, fired, edge, outVars>>
        /\ UNCHANGED <<queue, deadlines, now, added, delivered, dAdded,
                       dFired, life, osq>>

\* poll, first step, called with an empty sink of capacity `cap`: the user
\* space queue is drained into the sink and the caller enters select, with
\* no wait once user space events were found.
BeginPoll(cap, timeout) ==
    LET user == queue_poll(queue, NewSink(cap))
        eff == effective_timeout(timeout, queue, deadlines, now)
    IN  /\ lastCall = NoCall
        /\ lastCall' = Call("polling", 0,
                            IF eff.some THEN "timed" ELSE "forever")
        /\ queue' = user.queue
        /\ sink' = user.sink
        /\ UNCHANGED <<kevs, result, osVars>>
        /\ UNCHANGED <<deadlines, now, added, delivered, dAdded, dFired,
                       life, osq, notifier>>

\* poll, second step: the select of the poll the caller is in returns, and
\* the expired deadlines are polled.
ReturnPoll(intr) ==
    /\ lastCall.op = "polling"
    /\ lastCall' = Call("poll", 0, lastCall.sys)
    /\ \E out \in select(sink, TimeoutOf(lastCall), intr) :
        LET timers == deadlines_poll(deadlines, now + out.took, out.sink)
        IN  /\ now + out.took <= MaxTime
            /\ now' = now + out.took
            /\ result' = out.result
            /\ kevs' = out.kevs
            /\ knotes' = out.kn
            /\ fired' = out.fired
            /\ edge' = out.edge
            /\ awakener' = Awoken(out.kevs)
            /\ sink' = IF out.result.ok THEN timers.sink ELSE out.sink
            /\ deadlines' = IF out.result.ok THEN timers.deadlines
                            ELSE deadlines
    /\ delivered' = delivered + Count(sink', "user")
    /\ dFired' = dFired + Count(sink', "timer")
    /\ UNCHANGED <<pending, writable, reg, queue, added, dAdded, life, osq, notifier>>

\* The caller has looked at the outcome of its latest call and drained the
\* sink (events.drain(..), events.clear()); it is ready for its next call.
Handle ==
    /\ lastCall.op \notin {"none", "selecting", "polling"}
    /\ lastCall' = NoCall
    /\ result' = Ok
    /\ kevs' = <<>>
    /\ sink' = NewSink(Growable)
    /\ edge' = [fd \in FDs |->
                    IF Outstanding(edge[fd]) THEN edge[fd] ELSE "none"]
    /\ UNCHANGED <<knotes, pending, writable, reg, fired, awakener, userVars>>

\* --------------------------------------------------------------- the world

\* A connection or data arrives at fd.
Arrive(fd) ==
    /\ pending[fd] < MaxPending
    /\ pending' = [pending EXCEPT ![fd] = @ + 1]
    /\ knotes' = Activate(knotes, <<fd, EVFILT_READ>>)
    /\ edge' = IF Registered(fd) /\ reg[fd].opt = EDGE
                  /\ ~Outstanding(edge[fd])
               THEN [edge EXCEPT ![fd] = IF pending[fd] = 0 THEN "transition"
                                         ELSE "arrival"]
               ELSE edge
    /\ UNCHANGED <<writable, reg, fired, awakener, userVars, outVars>>

\* The caller accepts or reads one arrival from fd.
Take(fd) ==
    /\ pending[fd] > 0
    /\ pending' = [pending EXCEPT ![fd] = @ - 1]
    /\ edge' = IF pending[fd] = 1 THEN [edge EXCEPT ![fd] = "none"] ELSE edge
    /\ UNCHANGED <<knotes, writable, reg, fired, awakener, userVars, outVars>>

\* A connection arrives at the listening socket that every descriptor of FDs
\* refers to (a TcpListener and its try_clone): it is queued once, and the
\* read knote of each descriptor, in whichever kqueue, is activated.
Connect ==
    LET activated(kn) ==
            Activate(Activate(kn, <<3, EVFILT_READ>>), <<4, EVFILT_READ>>)
    IN  /\ \A fd \in FDs : pending[fd] < MaxPending
        /\ pending' = [fd \in FDs |-> pending[fd] + 1]
        /\ knotes' = activated(knotes)
        /\ osq' = [osq EXCEPT !.other = activated(@)]
        /\ edge' = [fd \in FDs |->
                        IF Registered(fd) /\ reg[fd].opt = EDGE
                            /\ ~Outstanding(edge[fd])
                        THEN (IF pending[fd] = 0 THEN "transition"
                              ELSE "arrival")
                        ELSE edge[fd]]
        /\ UNCHANGED <<writable, reg, fired, awakener, outVars, queue,
                       deadlines, now, added, delivered, dAdded, dFired,
                       life, notifier>>

\* listener.accept() through the descriptor fd of the shared listening
\* socket: the oldest queued connection is taken from the socket, or the
\* call returns WouldBlock when none is queued.
Accept(fd) ==
    /\ lastCall = NoCall
    /\ IF pending[fd] > 0
       THEN /\ pending' = [other \in FDs |-> pending[other] - 1]
            /\ edge' = [other \in FDs |->
                            IF pending[other] = 1 THEN "none" ELSE edge[other]]
            /\ lastCall' = Call("accept", fd, "accepted")
       ELSE /\ lastCall' = Call("accept", fd, "would block")
            /\ UNCHANGED <<pending, edge>>
    /\ UNCHANGED <<knotes, writable, reg, fired, awakener, kevs, sink, result,
                   userVars>>

\* The caller turns to its other OsQueue.
SwitchQueue ==
    /\ lastCall = NoCall
    /\ osq' = [current |-> IF osq.current = 1 THEN 2 ELSE 1, other |-> knotes]
    /\ knotes' = osq.other
    /\ UNCHANGED <<pending, writable, reg, fired, edge, awakener, outVars,
                   queue, deadlines, now, added, delivered, dAdded, dFired,
                   life, notifier>>

\* The send buffer of fd gets room, or fills up.
SetWritable(fd, b) ==
    /\ writable[fd] # b
    /\ writable' = [writable EXCEPT ![fd] = b]
    /\ knotes' = IF b THEN Activate(knotes, <<fd, EVFILT_WRITE>>) ELSE knotes
    /\ UNCHANGED <<pending, reg, fired, edge, awakener, userVars, outVars>>

\* ------------------------------------------------------------ specification

Init ==
    /\ queue = <<>>
    /\ deadlines = <<>>
    /\ now = 0
    /\ added = 0
    /\ delivered = 0
    /\ dAdded = 0
    /\ dFired = 0
    /\ knotes = <<>>
    /\ pending = [fd \in FDs |-> 0]
    /\ writable = [fd \in FDs |-> FALSE]
    /\ kevs = <<>>
    /\ sink = NewSink(Growable)
    /\ result = Ok
    /\ lastCall = NoCall
    /\ reg = <<>>
    /\ fired = [fd \in FDs |-> 0]
    /\ edge = [fd \in FDs |-> "none"]
    /\ awakener = NewAwakener
    /\ notifier = "idle"
    /\ life = NewLife
    /\ osq = [current |-> 1, other |-> <<>>]

\* The Selector with one descriptor, registered in every way.
Next ==
    \/ \E sys \in SysOutcomes : \E a \in Args :
            Register(3, a.id, a.interests, a.opt, sys)
    \/ \E sys \in SysOutcomes : \E a \in Args :
            Reregister(3, a.id, a.interests, a.opt, sys)
    \/ \E sys \in SysOutcomes : Deregister(3, sys)
    \/ \E cap \in Capacities, timeout \in {NoTimeout, Some(0)}, intr \in BOOLEAN :
            Select(cap, timeout, intr)
    \/ Handle
    \/ Arrive(3)
    \/ Take(3)
    \/ \E b \in BOOLEAN : SetWritable(3, b)

Spec == Init /\ [][Next]_vars

\* The Selector with one open descriptor and one that is not open.
NextBadFd ==
    \/ \E sys \in SysOutcomes : \E a \in Args :
            Register(3, a.id, a.interests, a.opt, sys)
    \/ \E a \in Args : Register(BadFd, a.id, a.interests, a.opt, "ok")
    \/ \E a \in Args : Reregister(BadFd, a.id, a.interests, a.opt, "ok")
    \/ \E fd \in {3, BadFd} : Deregister(fd, "ok")
    \/ \E cap \in Capacities, timeout \in {NoTimeout, Some(0)}, intr \in BOOLEAN :
            Select(cap, timeout, intr)
    \/ Handle
    \/ Arrive(3)

SpecBadFd == Init /\ [][NextBadFd]_vars

\* select translating the kevents the kernel can hand it.
NextTranslate ==
    \/ \E kevent \in KernelEvents : Translate(kevent)
    \/ Handle

SpecTranslate == Init /\ [][NextTranslate]_vars

\* Selector::new after every Selector was dropped: a new kernel queue, with
\* no knotes, behind the one descriptor of the new Selector.
New ==
    /\ life.live \cap Selectors = {}
    /\ life' = NewLife
    /\ knotes' = <<>>
    /\ reg' = <<>>
    /\ fired' = [fd \in FDs |-> 0]
    /\ edge' = [fd \in FDs |-> "none"]
    /\ awakener' = NewAwakener
    /\ kevs' = <<>>
    /\ sink' = NewSink(Growable)
    /\ result' = Ok
    /\ lastCall' = NoCall
    /\ UNCHANGED <<osq, pending, writable, queue, deadlines, now, added, delivered,
                   dAdded, dFired, notifier>>

\* The queue's Selector and its duplicate, used and dropped in any order.
NextLife ==
    \/ \E sys \in {"ok", "EMFILE"} : TryClone(sys)
    \/ \E sel \in Selectors, sys \in {"ok", "EINTR"} : DropSelector(sel, sys)
    \/ New
    \/ \E a \in ListenerArgs :
            "queue" \in life.live /\ Register(3, a.id, a.interests, a.opt, "ok")
    \/ \E cap \in Capacities, timeout \in {NoTimeout, Some(0)} :
            "queue" \in life.live /\ BeginSelect(cap, timeout)
    \/ \E intr \in BOOLEAN : ReturnSelect(intr)
    \/ Handle
    \/ \E id \in Ids :
            "awakener" \in life.live /\ Wake(id, "ok")
    \/ Arrive(3)

SpecLife == Init /\ [][NextLife]_vars

\* The queue, the registration and its notifier, dropped in any order while
\* the notifier's thread notifies and the caller polls.
NextDrop ==
    \/ \E event \in UserEvents : NotifyEnqueue(event)
    \/ \E sys \in {"ok", "EINTR"} : NotifyWake(sys)
    \/ \E cap \in Capacities, timeout \in {NoTimeout, Some(0)} :
            "queue" \in life.live /\ BeginPoll(cap, timeout)
    \/ \E intr \in BOOLEAN : ReturnPoll(intr)
    \/ Handle
    \/ \E obj \in {"registration", "notifier"} : DropObject(obj)
    \/ \E sys \in {"ok", "EINTR"} : DropSelector("queue", sys)

SpecDrop == Init /\ [][NextDrop]_vars

\* A listener and its clone, two descriptors of one listening socket, each
\* registered in one of the caller's two OsQueues.
NextClone ==
    \/ \E fd \in FDs, a \in ListenerArgs :
            /\ <<fd, EVFILT_READ>> \notin DOMAIN osq.other
            /\ Register(fd, a.id, a.interests, a.opt, "ok")
    \/ \E cap \in Capacities, timeout \in {NoTimeout, Some(0)} :
            Select(cap, timeout, FALSE)
    \/ Handle
    \/ Connect
    \/ \E fd \in FDs : Accept(fd)
    \/ SwitchQueue

SpecClone == Init /\ [][NextClone]_vars

\* The arguments of a call through a wrapper: those of register and
\* reregister, and the none of deregister.
EventedArgs ==
    [op : {"register", "reregister"}, id : Ids, interests : InterestsSet,
     opt : {EDGE, ONESHOT}]
        \cup [op : {"deregister"}, id : {0}, interests : {{}}, opt : {LEVEL}]

\* Descriptors registered through the wrappers that own them.
NextEvented ==
    \/ \E wrapper \in Wrappers, a \in EventedArgs, sys \in {"ok", "ENOMEM"} :
            Evented(wrapper, a.op, a.id, a.interests, a.opt, sys)
    \/ Handle

SpecEvented == Init /\ [][NextEvented]_vars

\* The errnos the kernel fails a single change with, 0 for none.
Faults == {0, EBADF, ENOMEM}

\* The calls of the five operations: those on descriptor 3 with any id and
\* interests, and those of the awakener.
SubmitCalls ==
    [op : {"register", "reregister"}, fd : {3}, id : Ids,
     interests : InterestsSet, opt : {EDGE}]
        \cup [op : {"deregister"}, fd : {3}, id : {0}, interests : {{}},
              opt : {LEVEL}]
        \cup [op : {"setup_awakener", "wake"}, fd : {0}, id : {1},
              interests : {{}}, opt : {LEVEL}]

\* The five operations with every outcome of their kevent call and, when it
\* returns normally, every failure of their changes (a kevent call that
\* fails with EINTR has applied all its changes).
NextSubmit ==
    \/ \E c \in SubmitCalls, sys \in SysOutcomes :
        \E faults \in UNION {[1..n -> Faults] : n \in 1..2} :
            /\ sys # "ok" => \A i \in DOMAIN faults : faults[i] = 0
            /\ Submit(c.op, c.fd, c.id, c.interests, c.opt, sys, faults)
    \/ Handle

SpecSubmit == Init /\ [][NextSubmit]_vars

\* The Selector with two descriptors, both listeners.
NextTwo ==
    \/ \E fd \in FDs, sys \in SysOutcomes : \E a \in ListenerArgs :
            Register(fd, a.id, a.interests, a.opt, sys)
    \/ \E fd \in FDs, sys \in SysOutcomes : \E a \in ListenerArgs :
            Reregister(fd, a.id, a.interests, a.opt, sys)
    \/ \E fd \in FDs, sys \in SysOutcomes : Deregister(fd, sys)
    \/ \E cap \in Capacities, timeout \in {NoTimeout, Some(0)}, intr \in BOOLEAN :
            Select(cap, timeout, intr)
    \/ Handle
    \/ \E fd \in FDs : Arrive(fd)
    \/ \E fd \in FDs : Take(fd)

SpecTwo == Init /\ [][NextTwo]_vars

\* The arguments the descriptor polled together with the user space queue
\* and the deadlines is registered with.
PollArgs == [id : {1}, interests : {{READABLE}}, opt : {LEVEL, EDGE}]

\* poll over the user space queue, the OS queue and the deadlines.
NextPoll ==
    \/ \E a \in PollArgs : Register(3, a.id, a.interests, a.opt, "ok")
    \/ \E cap \in Capacities, timeout \in Timeouts, intr \in BOOLEAN :
            Poll(cap, timeout, intr)
    \/ Handle
    \/ \E event \in UserEvents : Add(event)
    \/ \E id \in DeadlineIds, at \in 0..MaxTime : AddDeadline(id, at)
    \/ Tick
    \/ Arrive(3)
    \/ Take(3)

SpecPoll == Init /\ [][NextPoll]_vars

\* The Selector with an awakener, woken by another thread, and a listener.
NextWake ==
    \/ \E id \in Ids, sys \in SysOutcomes : SetupAwakener(id, sys)
    \/ \E id \in Ids, sys \in SysOutcomes : Wake(id, sys)
    \/ \E a \in ListenerArgs : Register(3, a.id, a.interests, a.opt, "ok")
    \/ \E cap \in Capacities, timeout \in {NoTimeout, Some(0)} :
            BeginSelect(cap, timeout)
    \/ \E intr \in BOOLEAN : ReturnSelect(intr)
    \/ Handle
    \/ Arrive(3)
    \/ Take(3)

SpecWake == Init /\ [][NextWake]_vars

\* poll on one thread, notify on another, and a listener.
NextNotify ==
    \/ \E event \in UserEvents : NotifyEnqueue(event)
    \/ \E sys \in {"ok", "EINTR"} : NotifyWake(sys)
    \/ \E cap \in Capacities, timeout \in {NoTimeout, Some(0)} :
            BeginPoll(cap, timeout)
    \/ \E intr \in BOOLEAN : ReturnPoll(intr)
    \/ Handle
    \/ \E a \in PollArgs : Register(3, a.id, a.interests, a.opt, "ok")
    \/ Arrive(3)
    \/ Take(3)

SpecNotify == Init /\ [][NextNotify]_vars

\* poll with deadlines of two ids that are added and removed.
NextDeadline ==
    \/ \E id \in Ids, at \in 0..MaxTime : AddDeadline(id, at)
    \/ \E id \in Ids : RemoveDeadline(id)
    \/ \E cap \in Capacities, timeout \in Timeouts, intr \in BOOLEAN :
            Poll(cap, timeout, intr)
    \/ Handle
    \/ \E event \in UserEvents : Add(event)
    \/ Tick

SpecDeadline == Init /\ [][NextDeadline]_vars

\* ------------------------------------------------------------------ claims

\* The descriptor the i-th event of the latest select is about, and the
\* readiness kinds among READABLE and WRITABLE it reports.
EventFd(i) == kevs[i].ident
EventKinds(i) == sink.items[i].readiness \cap {READABLE, WRITABLE}
AfterSelect == lastCall.op = "select"

\* C1: an fd registered ONESHOT, with any interests, is reported by at most
\* one select per arming: once a select has emitted an event for it, no later
\* select emits another one until the fd is registered or reregistered again.
C1_OneshotAtMostOnce ==
    \A fd \in FDs :
        (Registered(fd) /\ reg[fd].opt = ONESHOT) => fired[fd] <= 1

\* C2: every event a select emits for an fd carries the id given by the
\* latest successful register / reregister on that fd.
C2_EventsCarryLatestId ==
    AfterSelect =>
        \A i \in DOMAIN kevs :
            Registered(EventFd(i)) => sink.items[i].id = reg[EventFd(i)].id

\* C3: register on an fd that is already registered replaces the
\* registration: afterwards the events for the fd are tagged with the new id
\* and are only of the readiness kinds of the new interests.
C3_RegisterReplaces ==
    AfterSelect =>
        \A i \in DOMAIN kevs :
            (Registered(EventFd(i)) /\ reg[EventFd(i)].by = "register") =>
                /\ sink.items[i].id = reg[EventFd(i)].id
                /\ EventKinds(i) \subseteq reg[EventFd(i)].interests

\* C4: once deregister(fd) has returned Ok, no select emits an event for fd
\* until fd is registered again, whatever becomes ready on fd meanwhile; with
\* no fd registered the select leaves the sink empty.
C4_DeregisterSilences ==
    AfterSelect =>
        /\ \A i \in DOMAIN kevs : Registered(EventFd(i))
        /\ (\A fd \in FDs : ~Registered(fd)) => sink.items = <<>>

\* C4 happens: a select returned after fd 3 was deregistered while fd 3 was
\* readable and writable.
C4_Witness ==
    /\ AfterSelect
    /\ result.ok
    /\ 3 \in DOMAIN reg
    /\ reg[3] = Deregistered
    /\ pending[3] > 0
    /\ writable[3]
    /\ sink.items = <<>>

\* The knotes of `kn` that are not of `fd`.
OtherKnotes(kn, fd) == [key \in {k \in DOMAIN kn : k[1] # fd} |-> kn[key]]

\* C5: deregister(fd) whose system call succeeds returns Ok whatever filters
\* of fd are installed (none, because fd was never registered or is already
\* deregistered, or only one of the two): an ENOENT receipt is not returned
\* as an error. It removes the knotes of fd and leaves all others unchanged.
C5_DeregisterAbsorbsENOENT ==
    [][(lastCall'.op = "deregister" /\ lastCall.op = "none"
            /\ lastCall'.sys = "ok") =>
        /\ result' = Ok
        /\ knotes' = OtherKnotes(knotes, lastCall'.fd)]_vars

\* C5 happens: a deregister got an ENOENT receipt and returned Ok while the
\* other descriptor is registered.
C5_Witness ==
    /\ lastCall.op = "deregister"
    /\ lastCall.sys = "ok"
    /\ result.ok
    /\ \E i \in DOMAIN kevs : kevs[i].data = ENOENT
    /\ \E key \in DOMAIN knotes : key[1] # lastCall.fd

AfterPoll == lastCall.op = "poll"
\* The user space events of the sink, in sink order.
UserItems == SelectSeq(sink.items, LAMBDA item : item.src = "user")
\* Whether the sink has no capacity left.
SinkFull == sink.cap.limited /\ Len(sink.items) = sink.cap.n
\* Whether a deadline that has expired is still in the heap.
ExpiredLeft == deadlines # <<>> /\ deadlines[1].at <= now

C7_ExactlyOnce ==
    /\ delivered + Len(queue) = added
    /\ {queue[i].seq : i \in DOMAIN queue} = (delivered + 1)..added
    /\ AfterPoll =>
        {UserItems[i].seq : i \in DOMAIN UserItems} =
            (delivered - Len(UserItems) + 1)..delivered

\* C7 happens: a poll filled its sink with user space events and had to leave
\* events queued.
C7_Witness ==
    /\ AfterPoll
    /\ sink.cap.n >= 1
    /\ SinkFull
    /\ Len(UserItems) = sink.cap.n
    /\ queue # <<>>

\* C8: each deadline produces exactly one TIMER event: a poll emits the
\* expired deadlines that fit in the sink and removes exactly those; the
\* others stay in the heap, and an expired deadline stays only when the sink
\* is full.
C8_DeadlineFiresOnce ==
    /\ dFired + Len(deadlines) = dAdded
    /\ (AfterPoll /\ result.ok /\ ExpiredLeft) => SinkFull
    /\ AfterPoll =>
        \A i \in DOMAIN sink.items :
            sink.items[i].src = "timer" => sink.items[i].readiness = {TIMER}

\* C8 happens: a poll emitted a TIMER event, filling the sink, and another
\* expired deadline stayed in the heap.
C8_Witness ==
    /\ AfterPoll
    /\ SinkFull
    /\ Count(sink, "timer") >= 1
    /\ ExpiredLeft

\* The place of a source in a poll pass.
Rank(src) == CASE src = "user" -> 1 [] src = "os" -> 2 [] src = "timer" -> 3

\* C9: the events of one poll are ordered by source: user space events first,
\* in queue order, then OS events, then TIMER events; and while user space
\* events remain queued the sink holds only user space events and is full.
C9_SourceOrder ==
    AfterPoll =>
        /\ \A i, j \in DOMAIN sink.items :
            i < j =>
                /\ Rank(sink.items[i].src) <= Rank(sink.items[j].src)
                /\ (sink.items[j].src = "user" =>
                        sink.items[i].seq < sink.items[j].seq)
        /\ queue # <<>> => (SinkFull /\ Len(UserItems) = Len(sink.items))

\* C9 happens: one poll delivered a user space event, an OS event and a
\* TIMER event.
C9_Witness ==
    /\ AfterPoll
    /\ Len(sink.items) = 3
    /\ sink.items[1].src = "user"
    /\ sink.items[2].src = "os"
    /\ sink.items[3].src = "timer"

\* C10: user space events are delivered in the order they were added, over
\* any number of polls: the i-th event delivered is the i-th event added.
C10_EnqueueOrder ==
    /\ \A i \in DOMAIN queue : queue[i].seq = delivered + i
    /\ AfterPoll =>
        \A i \in DOMAIN UserItems :
            UserItems[i].seq = delivered - Len(UserItems) + i

\* C10 happens: a poll delivered events that an earlier poll had to leave
\* queued, and an event added since then is queued behind them.
C10_Witness ==
    /\ AfterPoll
    /\ Len(UserItems) >= 1
    /\ UserItems[1].seq > 1
    /\ queue # <<>>

\* A step in which the caller calls select.
SelectStep == lastCall.op = "none" /\ lastCall'.op = "select"
\* Whether fd is registered EDGE with READABLE among its interests.
EdgeReadable(fd) ==
    Registered(fd) /\ reg[fd].opt = EDGE /\ READABLE \in reg[fd].interests
\* Whether the kevents `ks`, translated to `items`, hold a READABLE event of
\* fd tagged with the id fd is registered with.
Emitted(fd, ks, items) ==
    \E i \in DOMAIN ks :
        /\ ks[i].ident = fd
        /\ items[i].id = reg[fd].id
        /\ READABLE \in items[i].readiness
\* Whether the sink `s` has capacity left.
NotFull(s) == ~(s.cap.limited /\ Len(s.items) = s.cap.n)

\* C11: for an fd registered EDGE for READABLE, a transition of its readable
\* condition from false to true (that the caller has not read away) is
\* followed by a READABLE event tagged with the fd's id: the next select that
\* returns with sink capacity left emits it.
C11_EdgeAtLeastOnce ==
    [][SelectStep =>
        \A fd \in FDs :
            (EdgeReadable(fd) /\ edge[fd] = "transition" /\ NotFull(sink')) =>
                Emitted(fd, kevs', sink'.items)]_vars

\* C11 happens: a select reported the transition of an fd registered EDGE for
\* READABLE, with the fd's id.
C11_Witness ==
    /\ AfterSelect
    /\ \E fd \in FDs :
        /\ EdgeReadable(fd)
        /\ edge[fd] = "reported transition"
        /\ Emitted(fd, kevs, sink.items)

\* Whether the kevents `ks` hold an event of the read side of fd.
ReadReported(fd, ks) ==
    \E i \in DOMAIN ks : ks[i].ident = fd /\ ks[i].filter = EVFILT_READ

\* C12: for an fd registered EDGE, once an event has been delivered and the
\* caller has not drained the fd, later selects emit no further event for it:
\* a select reports the read side of the fd only when the fd became readable,
\* got a further arrival or was registered while readable since the latest
\* report.
C12_EdgeNoRepeat ==
    [][SelectStep =>
        \A fd \in FDs :
            (Registered(fd) /\ reg[fd].opt = EDGE /\ ReadReported(fd, kevs')) =>
                Outstanding(edge[fd])]_vars

\* C13: registering or reregistering an fd EDGE for READABLE while it is
\* readable already yields an event tagged with the new id without any fresh
\* transition: the next select that returns with sink capacity left emits it
\* (unless the caller reads the fd empty first).
C13_EdgeRegisteredWhileReadable ==
    [][SelectStep =>
        \A fd \in FDs :
            (EdgeReadable(fd) /\ edge[fd] = "registered" /\ NotFull(sink')) =>
                Emitted(fd, kevs', sink'.items)]_vars

\* C13 happens: an fd that was readable was reregistered EDGE for READABLE
\* with id 1, and a select reported it with that id.
C13_Witness ==
    /\ AfterSelect
    /\ \E fd \in FDs :
        /\ EdgeReadable(fd)
        /\ reg[fd].by = "reregister"
        /\ reg[fd].id = 1
        /\ edge[fd] = "reported registered"
        /\ Emitted(fd, kevs, sink.items)

\* Whether a readiness condition fd is registered for holds.
Ready(fd) ==
    \/ READABLE \in reg[fd].interests /\ pending[fd] > 0
    \/ WRITABLE \in reg[fd].interests /\ writable[fd]
\* Whether the kevents `ks` hold an event of fd.
Reports(fd, ks) == \E i \in DOMAIN ks : ks[i].ident = fd

\* C14: for an fd registered LEVEL, every select that is invoked while its
\* readiness condition holds and returns with sink capacity left emits an
\* event for the fd, and a select invoked while the condition does not hold
\* emits none (so c pending connections, accepted one per event, give
\* exactly c events).
C14_LevelWhileReady ==
    [][SelectStep =>
        \A fd \in FDs :
            (Registered(fd) /\ reg[fd].opt = LEVEL) =>
                /\ (Ready(fd) /\ NotFull(sink')) => Reports(fd, kevs')
                /\ ~Ready(fd) => ~Reports(fd, kevs')]_vars

\* A step in which the select the caller is in returns.
ReturnStep == lastCall.op = "selecting" /\ lastCall'.op = "select"
\* Whether the kevents `ks`, translated to `items`, hold the event of the
\* awakener: (id, READABLE).
AwakenerEvent(ks, items, id) ==
    \E i \in DOMAIN ks :
        ks[i].filter = EVFILT_USER /\ items[i].id = id
            /\ items[i].readiness = {READABLE}

\* C15: a wake issued by another thread while the caller is blocked in
\* select, also one without timeout, or before the caller enters select,
\* makes that select return: it can return without timeout or signal, it
\* returns Ok and, unless other events used up the sink's capacity, with the
\* event (id, READABLE) of the awakener in the sink.
C15_WakeReturnsSelect ==
    /\ [](lastCall.op = "selecting" /\ awakener.wakes > 0 =>
            select(sink, TimeoutOf(lastCall), FALSE) # {})
    /\ [][(ReturnStep /\ awakener.wakes > 0) =>
            /\ result'.ok
            /\ NotFull(sink') =>
                AwakenerEvent(kevs', sink'.items, awakener.id)]_vars

\* C15 happens: a select without timeout, in which the caller was when the
\* wake was issued, returned with the event of the awakener.
C15_Witness ==
    /\ lastCall = Call("select", 0, "forever")
    /\ result.ok
    /\ awakener.parked
    /\ AwakenerEvent(kevs, sink.items, awakener.id)

\* The number of awakener events among the kevents `ks`.
AwakenerEvents(ks) ==
    Cardinality({i \in DOMAIN ks : ks[i].filter = EVFILT_USER})

\* C16: wakes coalesce: however many wakes were issued since the select that
\* last reported the awakener, the next select delivers at most one awakener
\* event, and a select delivers none unless wake was called since then.
C16_WakesCoalesce ==
    [][ReturnStep =>
        /\ AwakenerEvents(kevs') <= 1
        /\ AwakenerEvents(kevs') = 1 => awakener.wakes > 0]_vars

\* C16 happens: a select delivered one awakener event for two wakes.
C16_Witness ==
    /\ AfterSelect
    /\ awakener.reported = 2
    /\ awakener.wakes = 0
    /\ AwakenerEvents(kevs) = 1

\* C20: a select whose kernel wait is interrupted by a signal returns Ok with
\* nothing added to the sink: no select ends with the error EINTR.
C20_InterruptedSelectIsOk ==
    AfterSelect => result # Err(EINTR)

\* The caller enters poll.
BeginPollStep == lastCall.op = "none" /\ lastCall'.op = "polling"
\* The number of user space events the poll in progress holds in its sink.
InPoll == IF lastCall.op = "polling" THEN Count(sink, "user") ELSE 0

PollStep == lastCall.op = "none" /\ lastCall'.op = "poll"
\* What holds of every poll about the deadlines expired when it is invoked:
\* they are emitted unless the sink gets full, and the poll does not wait
\* beyond the earliest deadline.
PollEmitsExpired ==
    /\ Count(sink', "timer") < Expired(deadlines, now)
            => (sink'.cap.limited /\ Len(sink'.items) = sink'.cap.n)
    /\ deadlines # <<>>
            => now' <= (IF deadlines[1].at > now THEN deadlines[1].at ELSE now)

\* C18 as claimed: a poll invoked before the instant of a deadline does not
\* emit its TIMER event, the first poll invoked at or after the instant with
\* sink capacity left emits it, and a poll does not wait beyond the earliest
\* deadline.
C18_NoTimerBeforeInvocation ==
    [][PollStep =>
        /\ Count(sink', "timer") <= Expired(deadlines, now)
        /\ PollEmitsExpired]_vars

\* C18: no TIMER event is emitted before the instant of its deadline: a
\* poll emits only deadlines that have expired when it returns; the first
\* poll invoked at or after the instant with sink capacity left emits the
\* event, and a poll does not wait beyond the earliest deadline.
C18_TimerAtOrAfterInstant ==
    [][PollStep =>
        /\ Count(sink', "timer") <= Expired(deadlines, now')
        /\ PollEmitsExpired]_vars

\* C18 happens: a poll invoked before the instant of a deadline waited until
\* that instant and emitted the TIMER event.
C18_Witness ==
    /\ AfterPoll
    /\ lastCall.sys = "waited"
    /\ result.ok
    /\ now = 1
    /\ Count(sink, "timer") >= 1

\* The caller removes a deadline.
RemoveStep == lastCall.op = "none" /\ lastCall'.op = "remove_deadline"
\* The deadlines of `ds` with the id `id`, in heap order.
WithId(ds, id) == SelectSeq(ds, LAMBDA d : d.id = id)
\* The TIMER events of the sink `s`, in sink order.
TimerItems(s) == SelectSeq(s.items, LAMBDA item : item.src = "timer")

\* C19: a removed deadline never produces a TIMER event, and removing it
\* leaves the deadlines of other ids alone: remove_deadline(id) takes one
\* deadline with that id out of the heap (if there is one) and leaves every
\* deadline of another id in the heap with its instant and its place; and
\* the TIMER events of a poll are those of the earliest deadlines in the
\* heap, which the poll removes, so that a deadline no longer in the heap is
\* never emitted.
C19_RemovedNeverFires ==
    /\ [][RemoveStep =>
            LET id == lastCall'.fd
            IN  /\ \A other \in Ids \ {id} :
                        WithId(deadlines', other) = WithId(deadlines, other)
                /\ Len(WithId(deadlines', id)) =
                        (IF WithId(deadlines, id) = <<>> THEN 0
                         ELSE Len(WithId(deadlines, id)) - 1)
                /\ \A i \in DOMAIN deadlines' :
                        \E j \in DOMAIN deadlines : deadlines'[i] = deadlines[j]]_vars
    /\ [][PollStep =>
            LET n == Len(TimerItems(sink'))
            IN  /\ n <= Len(deadlines)
                /\ \A i \in 1..n :
                        /\ TimerItems(sink')[i].id = deadlines[i].id
                        /\ deadlines[i].at <= now'
                /\ deadlines' = Drop_n(deadlines, n)]_vars
    /\ [](dFired + Len(deadlines) <= dAdded)

\* C19 happens: of two deadlines one was removed; a poll at or after the
\* instants of both, with room in the sink, emitted only the other one.
C19_Witness ==
    /\ AfterPoll
    /\ result.ok
    /\ ~SinkFull
    /\ dAdded = 2
    /\ dFired = 1
    /\ deadlines = <<>>
    /\ Count(sink, "timer") = 1

\* Whether nothing the kernel watches is ready and no wake is pending.
Quiet == \A key \in Keys : ~Triggered(key)
\* What holds of a select with a finite timeout: it can return, and when it
\* returns while nothing is ready it returns Ok and leaves the sink as it was.
TimedSelectReturns ==
    /\ []((lastCall.op = "selecting" /\ lastCall.sys = "timed")
            => select(sink, TimeoutOf(lastCall), FALSE) # {})
    /\ [][(ReturnStep /\ lastCall.sys = "timed" /\ Quiet)
            => (result'.ok /\ sink' = sink /\ kevs' = <<>>)]_vars

\* C21 as claimed: a select with a finite timeout returns, and returns Ok with
\* the sink unchanged when nothing is ready; a select without a timeout that
\* returns Ok has received at least one event.
C21_UntimedSelectHasEvent ==
    /\ TimedSelectReturns
    /\ [][(ReturnStep /\ lastCall.sys = "forever" /\ result'.ok)
            => kevs' # <<>>]_vars

\* C21: a select with a finite timeout returns, and returns Ok with the sink
\* unchanged when nothing is ready; a select without a timeout whose sink has
\* capacity left cannot return while nothing is ready unless a signal
\* interrupts it, and when it returns Ok it has added at least one event.
C21_SelectTimeout ==
    /\ TimedSelectReturns
    /\ []((lastCall.op = "selecting" /\ lastCall.sys = "forever"
                /\ NotFull(sink) /\ Quiet)
            => select(sink, TimeoutOf(lastCall), FALSE) = {})
    /\ [][(ReturnStep /\ lastCall.sys = "forever" /\ result'.ok
                /\ NotFull(sink))
            => (kevs' # <<>> /\ Len(sink'.items) > Len(sink.items))]_vars

\* C21 happens: a select with a finite timeout returned Ok with an empty sink
\* of capacity 1 while nothing was ready.
C21_Witness ==
    /\ lastCall = Call("select", 0, "timed")
    /\ result.ok
    /\ sink = NewSink(Limited(1))
    /\ kevs = <<>>
    /\ Quiet

\* The caller makes one register call.
RegisterStep == lastCall.op = "none" /\ lastCall'.op = "register"
\* Whether the receipt `kev` reports that its change failed.
Failed(kev) == contains_flag(kev.flags, EV_ERROR) /\ kev.data # 0
\* The receipt lists of one register: one or two receipts of changes that
\* succeeded or failed with ENOENT or EBADF.
RegisterReceipts ==
    LET receipt(filter, e) ==
            [new_kevent(3, filter, {EV_ADD, EV_RECEIPT, EV_ERROR}, 0)
                EXCEPT !.data = e]
        errnos == {0, ENOENT, EBADF}
    IN  {<<receipt(f, e)>> : f \in Filters, e \in errnos}
        \cup {<<receipt(EVFILT_WRITE, e1), receipt(EVFILT_READ, e2)>> :
                    e1 \in errnos, e2 \in errnos}

\* C22: register ignores no error of its changes: when a receipt the kernel
\* wrote back to register reports a failure, register returns Err with its
\* errno and records no registration; and whatever receipts come back, ENOENT
\* included, register's check of them returns Ok only if none reports a
\* failure and otherwise Err with the errno of the first one that does.
C22_RegisterIgnoresNoError ==
    /\ [][RegisterStep =>
            \A i \in DOMAIN kevs' :
                Failed(kevs'[i]) => (result' = Err(kevs'[i].data) /\ reg' = reg)]_vars
    /\ [](\A receipts \in RegisterReceipts :
            LET failed == {i \in DOMAIN receipts : Failed(receipts[i])}
                r == check_errors(receipts, register_ignored_errors)
            IN  IF failed = {} THEN r = Ok
                ELSE r = Err(receipts[CHOOSE i \in failed :
                                        \A j \in failed : i <= j].data))

\* C22 happens: register was called on a descriptor that is not open, with
\* both interests; both receipts report EBADF and register returned it.
C22_Witness ==
    /\ lastCall = Call("register", BadFd, "ok")
    /\ Len(kevs) = 2
    /\ \A i \in DOMAIN kevs : Failed(kevs[i]) /\ kevs[i].data = EBADF
    /\ result = Err(EBADF)

\* The caller makes one reregister call.
ReregisterStep == lastCall.op = "none" /\ lastCall'.op = "reregister"
\* The interest a filter serves, and the knote flags an option stands for.
InterestOf(filter) == IF filter = EVFILT_READ THEN READABLE ELSE WRITABLE
KnoteFlags(opt) ==
    CASE opt = EDGE -> {EV_CLEAR} [] opt = ONESHOT -> {EV_ONESHOT}
      [] opt = LEVEL -> {}

\* C23: a reregister of an open descriptor whose system call did not fail
\* returns Ok, whichever of the two filters were installed before, and leaves
\* installed exactly the filters of its interests, each with its id and the
\* flags of its option; an ENOENT receipt does not make it fail.
C23_ReregisterInstallsExactly ==
    [][(ReregisterStep /\ lastCall'.fd \in FDs /\ lastCall'.sys # "ENOMEM") =>
        LET fd == lastCall'.fd
        IN  /\ result'.ok
            /\ reg'[fd].by = "reregister"
            /\ \A filter \in Filters :
                IF InterestOf(filter) \in reg'[fd].interests
                THEN /\ <<fd, filter>> \in DOMAIN knotes'
                     /\ knotes'[<<fd, filter>>].udata = reg'[fd].id
                     /\ knotes'[<<fd, filter>>].flags = KnoteFlags(reg'[fd].opt)
                ELSE <<fd, filter>> \notin DOMAIN knotes']_vars

\* C23 happens: a reregister with one interest found the filter it had to
\* delete not installed; the kernel answered ENOENT, reregister returned Ok
\* and exactly the filter of its interest is installed.
C23_Witness ==
    /\ lastCall = Call("reregister", 3, "ok")
    /\ result.ok
    /\ \E i \in DOMAIN kevs : Failed(kevs[i]) /\ kevs[i].data = ENOENT
    /\ reg[3].interests = {READABLE}
    /\ <<3, EVFILT_READ>> \in DOMAIN knotes
    /\ <<3, EVFILT_WRITE>> \notin DOMAIN knotes

\* The kevent the latest select received and the readiness of its event.
Received == kevs[1]
Readiness == sink.items[1].readiness
\* Whether select has just translated one kevent.
Translated == AfterSelect /\ Len(kevs) = 1 /\ Len(sink.items) = 1
\* Whether the kevent `kev` reports an end of file with an error in fflags.
EofError(kev) == contains_flag(kev.flags, EV_EOF) /\ kev.fflags # 0

\* C24: the event of a kevent has ERROR on account of EV_ERROR only when the
\* kevent has EV_ERROR with non-zero data: a kevent with EV_ERROR and data 0
\* gives an event without ERROR unless it has EV_EOF with non-zero fflags.
C24_ErrorNeedsData ==
    Translated => (ERROR \in Readiness => (Failed(Received) \/ EofError(Received)))

\* C25: the event of a kevent has READABLE iff the filter is EVFILT_READ or
\* EVFILT_USER, WRITABLE iff it is EVFILT_WRITE, HUP iff EV_EOF is set and,
\* when EV_ERROR is not set, ERROR iff EV_EOF is set with non-zero fflags;
\* nothing else is in its readiness, and its id is the udata of the kevent.
C25_Translation ==
    Translated =>
        /\ READABLE \in Readiness <=> Received.filter \in {EVFILT_READ, EVFILT_USER}
        /\ WRITABLE \in Readiness <=> Received.filter = EVFILT_WRITE
        /\ HUP \in Readiness <=> contains_flag(Received.flags, EV_EOF)
        /\ ~contains_flag(Received.flags, EV_ERROR)
                => (ERROR \in Readiness <=> EofError(Received))
        /\ Readiness \subseteq {READABLE, WRITABLE, HUP, ERROR}
        /\ sink.items[1].id = Received.udata

\* C25 happens: a read kevent with udata 1 and EV_EOF without an error in
\* fflags became the event (1, READABLE | HUP).
C25_Witness ==
    /\ Translated
    /\ Received.filter = EVFILT_READ
    /\ Received.flags = {EV_EOF}
    /\ Received.fflags = 0
    /\ Received.udata = 1
    /\ sink.items[1].id = 1
    /\ Readiness = {READABLE, HUP}

\* The least member of a non-empty set of numbers.
Least(S) == CHOOSE x \in S : \A y \in S : x <= y
\* The limits on the wait of a poll called with `timeout` in this state: the
\* caller's timeout, 0 when a user space event is queued, and the time until
\* the earliest deadline.
WaitLimits(timeout) ==
    (IF timeout.some THEN {timeout.d} ELSE {})
    \cup (IF queue # <<>> THEN {0} ELSE {})
    \cup (IF deadlines = <<>> THEN {}
          ELSE IF deadlines[1].at > now THEN {deadlines[1].at - now} ELSE {0})

\* C26: a poll waits no longer than the smallest of the caller's timeout, the
\* time until the earliest deadline and 0 when a user space event is queued,
\* and exactly that long when it returns Ok without an OS event although its
\* sink had room for one; and while a user space event is queued a poll
\* called without a timeout can return, without waiting.
C26_EffectiveTimeout ==
    /\ [][PollStep =>
            LET timeout == IF lastCall'.fd < 0 THEN NoTimeout
                           ELSE Some(lastCall'.fd)
            IN  /\ \A limit \in WaitLimits(timeout) : now' - now <= limit
                /\ (/\ result'.ok
                    /\ kevs' = <<>>
                    /\ ~sink'.cap.limited
                            \/ Count(sink', "user") < sink'.cap.n)
                        => (/\ WaitLimits(timeout) # {}
                            /\ now' - now = Least(WaitLimits(timeout)))]_vars
    /\ []((lastCall = NoCall /\ queue # <<>>)
            => \A cap \in Capacities :
                select(queue_poll(queue, NewSink(cap)).sink,
                       effective_timeout(NoTimeout, queue, deadlines, now),
                       FALSE) # {})

\* C26 happens: a poll found a user space event queued and returned it
\* without waiting, while no OS event was ready and no deadline was pending.
C26_Witness ==
    /\ lastCall = Call("poll", -1, "ok")
    /\ result.ok
    /\ Count(sink, "user") >= 1
    /\ kevs = <<>>
    /\ deadlines = <<>>
    /\ Quiet

\* C27: next_event_available of the user space queue is None exactly when
\* every event added has been delivered and Some(0) exactly when an event
\* added is still undelivered, after any adds and polls.
C27_NextEventAvailable ==
    /\ added = delivered => next_event_available(queue) = NoTimeout
    /\ added > delivered => next_event_available(queue) = Some(0)

\* C27 happens: a poll delivered part of the queue, and next_event_available
\* still announces an event.
C27_Witness ==
    /\ AfterPoll
    /\ Count(sink, "user") >= 1
    /\ added > delivered
    /\ next_event_available(queue) = Some(0)

\* One Selector is dropped in this step.
DropStep(sel) == sel \in life.live /\ sel \notin life'.live
\* Whether the Selector `sel` exists and its descriptor is open.
HandleOpen(l, sel) == l.kq[sel] # 0 /\ l.kq[sel] \in l.open

\* C28: the duplicate made by try_clone is another handle of the same kernel
\* queue: it has a descriptor of its own; dropping either Selector while the
\* other exists leaves the other's descriptor open and every knote in place;
\* and a wake made through the duplicate is delivered by a select on the
\* original that returns Ok with room in the sink.
C28_DuplicateIsIndependent ==
    /\ []({"queue", "awakener"} \subseteq life.live
            => life.kq["queue"] # life.kq["awakener"])
    /\ [][\A sel \in Selectors :
            LET other == CHOOSE x \in Selectors : x # sel
            IN  (DropStep(sel) /\ other \in life.live)
                    => (/\ HandleOpen(life, other) => HandleOpen(life', other)
                        /\ HandleOpen(life, other)
                        /\ knotes' = knotes)]_vars
    /\ [][(ReturnStep /\ awakener.wakes > 0 /\ result'.ok /\ NotFull(sink'))
            => AwakenerEvent(kevs', sink'.items, awakener.id)]_vars

\* C28 happens: a wake was issued through the duplicate and the duplicate was
\* dropped; after that a select on the original reported both the awakener
\* and the registered listener.
C28_Witness ==
    /\ AfterSelect
    /\ life.kq["awakener"] # 0
    /\ "awakener" \notin life.live
    /\ "queue" \in life.live
    /\ ReadReported(3, kevs)
    /\ AwakenerEvent(kevs, sink.items, awakener.id)

\* The descriptor of the Selector `sel`, once it was created.
Created(sel) == life.kq[sel] # 0

\* C29: every descriptor made by Selector::new or try_clone is closed exactly
\* once, by the drop of its Selector: while the Selector exists the
\* descriptor is open and no close was made on it, after its drop it is not
\* open and one close was made, also when that close failed; no descriptor
\* is open without a Selector, so none is left when all are dropped; and a
\* drop, failing or not, makes one close call and changes nothing of the
\* caller's result.
C29_ClosedExactlyOnce ==
    /\ [](\A sel \in Selectors : Created(sel) =>
            IF sel \in life.live
            THEN life.kq[sel] \in life.open /\ life.closes[life.kq[sel]] = 0
            ELSE life.kq[sel] \notin life.open
                    /\ life.closes[life.kq[sel]] = 1)
    /\ [](\A fd \in life.open :
            \E sel \in life.live \cap Selectors : life.kq[sel] = fd)
    /\ [](life.live \cap Selectors = {} => life.open = {})
    /\ [][\A sel \in Selectors : DropStep(sel) =>
            /\ life'.closes[life.kq[sel]] = life.closes[life.kq[sel]] + 1
            /\ <<result, lastCall, sink, kevs>>' = <<result, lastCall, sink, kevs>>]_vars

\* C29 happens: the Selector and its duplicate were made, used for a
\* register, a wake and a select that reported it, and both dropped, one of
\* the closes failing.
C29_Witness ==
    /\ \A sel \in Selectors : Created(sel) /\ sel \notin life.live
    /\ life.logged
    /\ life.open = {}
    /\ DOMAIN reg # {}
    /\ awakener.reported > 0

\* C30: once the registration is destroyed a notify on its notifier is a
\* no-op: no step taken after the destruction adds an event to the user
\* space queue, in whatever order queue, notifier and registration are
\* dropped; so the user space events polls emit are the ones enqueued while
\* the registration existed.
C30_NotifyAfterDestroyIsNoOp ==
    /\ []["registration" \notin life.live =>
            /\ added' = added
            /\ Len(queue') <= Len(queue)]_vars
    /\ [](delivered + InPoll + Len(queue) = added)

\* C30 happens: the registration was destroyed after one of its events was
\* enqueued; a notify made after that was ignored and the poll that followed
\* returned the one event.
C30_Witness ==
    /\ "registration" \notin life.live
    /\ "notifier" \in life.live
    /\ notifier = "ignored"
    /\ lastCall.op = "poll"
    /\ result.ok
    /\ added = 1
    /\ Count(sink, "user") = 1
    /\ queue = <<>>

\* Whether the kevents `ks`, translated to `items`, hold the read event of
\* the descriptor fd tagged id.
ReadEvent(ks, items, fd, id) ==
    \E i \in DOMAIN ks :
        /\ ks[i].ident = fd /\ ks[i].filter = EVFILT_READ
        /\ items[i].id = id /\ items[i].readiness = {READABLE}
\* The descriptors registered EDGE for READABLE on the OsQueue the caller
\* works with that have a connection to report.
Reportable ==
    {fd \in FDs : /\ Registered(fd) /\ reg[fd].kq = osq.current
                  /\ reg[fd].opt = EDGE /\ READABLE \in reg[fd].interests
                  /\ Outstanding(edge[fd])}

\* C31: registrations are keyed by descriptor, not by socket: when two
\* descriptors of one listening socket are registered EDGE, on the same
\* OsQueue or on two, a connection gives each of them an event of its own:
\* a select on an OsQueue that returns Ok with room in the sink holds, for
\* every descriptor registered on that OsQueue that has a connection to
\* report, the READABLE event tagged with that descriptor's id; and one
\* accept takes the connection from both, so that with one connection
\* queued an accept on either descriptor after it finds none.
C31_KeyedByDescriptor ==
    /\ [][(SelectStep /\ result'.ok /\ NotFull(sink')) =>
            \A fd \in Reportable :
                ReadEvent(kevs', sink'.items, fd, reg[fd].id)]_vars
    /\ [](\A fd \in FDs :
            (lastCall = Call("accept", fd, "accepted") /\ pending[fd] = 0)
                => \A other \in FDs : pending[other] = 0)

\* C31 happens: both descriptors are registered on one OsQueue with different
\* ids, and one select after one connection holds an event for each.
C31_Witness ==
    /\ AfterSelect
    /\ result.ok
    /\ \A fd \in FDs : Registered(fd) /\ reg[fd].kq = osq.current
    /\ reg[3].id # reg[4].id
    /\ \A fd \in FDs : pending[fd] = 1
    /\ \A fd \in FDs : ReadEvent(kevs, sink.items, fd, reg[fd].id)

\* A call through a wrapper returns in this step.
EventedStep == lastCall.op = "none" /\ "via" \in DOMAIN lastCall'

\* C32: registering a TcpListener with interests that include WRITABLE is
\* rejected and leaves no registration of the listener: no such call returns
\* Ok with the write filter of the listener's descriptor installed.
C32_ListenerRejectsWritable ==
    ("via" \in DOMAIN lastCall /\ lastCall.op = "register"
        /\ lastCall.via.wrapper = "TcpListener"
        /\ WRITABLE \in lastCall.via.interests)
            => ~(result.ok /\ <<lastCall.fd, EVFILT_WRITE>> \in DOMAIN knotes)

\* What the Selector operation `op` does when called with fd and the
\* arguments `v`, its system call ending as `sys`.
SelectorCall(op, fd, v, sys) ==
    IF op = "register"
    THEN kevent_register(register_changes(fd, v.id, v.interests, v.opt),
                         {}, sys)
    ELSE IF op = "reregister"
    THEN kevent_register(reregister_changes(fd, v.id, v.interests, v.opt),
                         {ENOENT}, sys)
    ELSE kevent_register(deregister_changes(fd), {ENOENT}, sys)

SubmitStep == lastCall.op = "none" /\ lastCall'.op \in SubmitOps
\* The receipts among `events` that report a failure `op` does not ignore.
Failing(events, op) ==
    {i \in DOMAIN events : /\ contains_flag(events[i].flags, EV_ERROR)
                           /\ events[i].data # 0
                           /\ events[i].data \notin IgnoredBy(op)}

\* C34: for register, reregister, deregister, setup_awakener and wake, when
\* the kevent call itself succeeds, the receipts come back in change order
\* (write filter before read filter) and the result is Err(e), e being the
\* data of the first receipt with EV_ERROR, data # 0 and data not ignored by
\* the operation, and Ok exactly when there is no such receipt.
C34_FirstReceiptError ==
    [][(SubmitStep /\ lastCall'.sys = "ok") =>
        LET failing == Failing(kevs', lastCall'.op)
        IN  /\ \A i, j \in DOMAIN kevs' :
                (i < j) => (/\ kevs'[i].filter = EVFILT_WRITE
                            /\ kevs'[j].filter = EVFILT_READ)
            /\ result'.ok <=> failing = {}
            /\ failing # {} =>
                result' = Err(kevs'[CHOOSE i \in failing :
                                        \A j \in failing : i <= j].data)]_vars

\* C34 happens: a reregister for READABLE whose delete of the absent write
\* filter came back ENOENT, which it ignores, and whose add of the read
\* filter failed with ENOMEM, returned ENOMEM.
C34_Witness ==
    /\ lastCall = Call("reregister", 3, "ok")
    /\ Len(kevs) = 2
    /\ kevs[1].data = ENOENT
    /\ kevs[2].data = ENOMEM
    /\ result = Err(ENOMEM)

\* The change list of the operation that returns Ok in this step, from what
\* is recorded of its arguments.
SubmittedChanges ==
    LET op == lastCall'.op
        fd == lastCall'.fd
    IN  IF op \in {"setup_awakener", "wake"}
        THEN ChangesOf(op, 0, awakener'.id, {}, LEVEL)
        ELSE ChangesOf(op, fd, reg'[fd].id, reg'[fd].interests, reg'[fd].opt)

\* C35: when the kevent call of register, reregister, deregister,
\* setup_awakener or wake fails with EINTR the operation returns Ok(()), no
\* receipt is looked at and the knote table is the one after all its
\* changes; when it fails with another error the operation returns that
\* error and the knote table is as before.
C35_InterruptedSubmitIsOk ==
    [][SubmitStep =>
        LET call == lastCall'
        IN  /\ call.sys = "EINTR" =>
                /\ result' = Ok
                /\ kevs' = <<>>
                /\ knotes' = KernelChanges(knotes, SubmittedChanges).kn
            /\ call.sys = "ENOMEM" =>
                (result' = Err(ENOMEM) /\ knotes' = knotes)]_vars

\* C35 happens: a reregister for WRITABLE interrupted by a signal returned
\* Ok with no receipts; the write knote is installed and no read knote is.
C35_Witness ==
    /\ lastCall = Call("reregister", 3, "EINTR")
    /\ result = Ok
    /\ kevs = <<>>
    /\ reg[3].interests = {WRITABLE}
    /\ <<3, EVFILT_WRITE>> \in DOMAIN knotes
    /\ <<3, EVFILT_READ>> \notin DOMAIN knotes

\* The knotes of the descriptor fd in the table `kn`.
KnotesOf(kn, fd) ==
    [key \in {k \in DOMAIN kn : k[1] = fd} |-> kn[key]]

\* C36: when register or reregister returns Err because one of its changes
\* failed, the knotes of the descriptor, with their ids and options, are the
\* ones installed before the call.
C36_FailedCallChangesNothing ==
    [][(SubmitStep /\ lastCall'.op \in {"register", "reregister"}
            /\ lastCall'.sys = "ok" /\ ~result'.ok)
        => KnotesOf(knotes', lastCall'.fd) = KnotesOf(knotes, lastCall'.fd)]_vars

\* The knotes whose events the select of this step put in the caller's sink.
Delivered ==
    {<<kevs'[i].ident, kevs'[i].filter>> :
        i \in DOMAIN kevs' \cap DOMAIN sink'.items}

\* C37: OS events that are ready but that a select does not return because
\* of its cap, a sink with no capacity left included, are not dropped: their
\* knotes are left as they were and still triggered; a select that returns
\* with room left in the sink has returned every triggered knote; and an
\* EDGE or ONESHOT event a select delivers is delivered once: it appears
\* once in the sink and its knote is not triggered any more.
C37_CappedEventsStay ==
    [][(SelectStep /\ result'.ok) =>
        /\ \A key \in Keys :
            (Triggered(key) /\ key \notin Delivered) =>
                /\ key \in DOMAIN knotes'
                /\ knotes'[key] = knotes[key]
                /\ Triggered(key)'
        /\ NotFull(sink') => \A key \in Keys : Triggered(key) => key \in Delivered
        /\ Len(sink'.items) = Cardinality(Delivered)
        /\ \A key \in Delivered :
            Armed(knotes[key].flags) => ~Triggered(key)']_vars

\* C37 happens: a select with a sink of capacity 1 returned one of two ready
\* events of EDGE or ONESHOT knotes; the other one is still triggered.
C37_Witness ==
    /\ AfterSelect
    /\ result.ok
    /\ sink.cap = Limited(1)
    /\ Len(sink.items) = 1
    /\ \E key \in Keys : Triggered(key) /\ Armed(knotes[key].flags)

\* The ids of the awakener events among the kevents `ks` translated to `items`.
AwakenerIds(ks, items) ==
    {items[i].id : i \in {j \in DOMAIN ks \cap DOMAIN items :
                                ks[j].filter = EVFILT_USER}}

\* C38 as stated: the awakener event a select delivers carries the id passed
\* to the most recent wake call.
C38_EventCarriesWakeId ==
    [][ReturnStep => AwakenerIds(kevs', sink'.items) \subseteq {awakener.wake}]_vars

\* C38: the awakener event a select delivers is (id, READABLE) with the id
\* passed to the most recent wake or setup_awakener call the kernel applied:
\* the id of the most recent wake unless setup_awakener was called after it,
\* also when an earlier setup_awakener gave another id; and a wake made on a
\* queue on which setup_awakener was never called is delivered just the
\* same: a select can return and, returning Ok with room in the sink, holds
\* the event with the wake's id.
C38_EventCarriesLatestId ==
    /\ [][ReturnStep =>
            /\ AwakenerIds(kevs', sink'.items) \subseteq {awakener.id}
            /\ \A i \in DOMAIN kevs' :
                kevs'[i].filter = EVFILT_USER
                    => sink'.items[i].readiness = {READABLE}]_vars
    /\ [][(ReturnStep /\ awakener.setup = -1 /\ awakener.wakes > 0
                /\ result'.ok /\ NotFull(sink'))
            => AwakenerIds(kevs', sink'.items) = {awakener.wake}]_vars
    /\ []((lastCall.op = "selecting" /\ awakener.setup = -1
                /\ awakener.wakes > 0)
            => select(sink, TimeoutOf(lastCall), FALSE) # {})

\* C38 happens: setup_awakener was called with id 0 and wake with id 1; the
\* select that followed delivered the awakener event with id 1.
C38_Witness ==
    /\ AfterSelect
    /\ result.ok
    /\ awakener.setup = 0
    /\ awakener.wake = 1
    /\ awakener.id = 1
    /\ AwakenerIds(kevs, sink.items) = {1}

====
